---- MODULE Spec2Model ----
(***************************************************************************)
(* Direktive.ai Home Assistant integration.                                *)
(*                                                                         *)
(* Three parts of the component are modelled, each with its own            *)
(* specification over the shared variables:                                *)
(*   SpecPoll    - DirektiveCoordinator.async_poll_directive and the       *)
(*                 directive collection it reconciles (coordinator.py)     *)
(*   SpecWebhook - async_handle_webhook (webhook.py)                       *)
(*   SpecSetup   - async_setup_entry / Direktive._send_bulk_update and the *)
(*                 two one-time flags of the config entry (__init__.py)    *)
(***************************************************************************)
EXTENDS Integers, Sequences, FiniteSets, TLC

VARIABLES
    now,                \* the event loop's clock, in seconds
    data,               \* DirektiveCoordinator.data: NoData or the directive list
    sensor_directives,  \* DirektiveSensor._attr_extra_state_attributes["directives"]
    poll,               \* the running async_poll_directive task
    entry,              \* the config entry (ConfigEntry.data), persisted by the host
    wh,                 \* the webhook request being handled by async_handle_webhook
    setup,              \* async_setup_entry / Direktive.async_start in progress
    api,                \* what the remote API has been sent by the setup path
    pub,                \* the Direktive object: state publisher and scenario dispatcher
    ws,                 \* the WebSocket command being handled
    op,                 \* the coordinator API operation in progress
    snap,               \* the snapshots async_set_updated_data handed to subscribers
    polls,              \* the async_poll_directive tasks running side by side, by id
    flow,               \* the options flow (OptionsFlowHandler) that is open, if any
    sess                \* the HTTP sessions of the coordinator and the publisher

\* the parts added after the poll loop, the webhook and the setup path
laterVars == <<polls, sess, flow>>

restVars == <<pub, ws, op, snap, laterVars>>

vars == <<now, data, sensor_directives, poll, entry, wh, setup, api, pub, ws, op, snap,
          polls, sess, flow>>

(***************************************************************************)
(* Bounds of the model and constants of the program.                       *)
(***************************************************************************)
\* the longest time, in seconds, one HTTP exchange of the poll loop takes
MaxFetchDelay == 150

\* the latest time, in seconds on the loop's clock, at which a poll starts
MaxStartTime == 5

\* a poll's stage history is recorded while it is at most this long
HistLen == 3

\* how many times async_setup_entry runs (first setup, reloads, restarts)
MaxSetups == 3

\* how many stage fetches one of the side-by-side polls makes before its
\* 380 seconds are over
MaxRounds == 2

\* while (loop.time() - start_time) < 380
PollTimeout == 380

\* await asyncio.sleep(10)
PollInterval == 10

Null == "null"

\* coordinator.data before a refresh delivered a directive list
NoData == [populated |-> FALSE, directives |-> <<>>]

\* coordinator.data holding a directive list
Data(list) == [populated |-> TRUE, directives |-> list]

\* a coroutine's return value: None, or one value
None == <<>>

Some(v) == <<v>>

DirectiveIds == {"d1", "d2"}

TimeoutMessage == "Directive creation timed out after 3 minutes."

(***************************************************************************)
(* Values exchanged with the remote API.                                   *)
(***************************************************************************)
\* GET /directive/stage/{id}: the stage payload
StagePayloads ==
    { [stage |-> "pending",    stage_message |-> "queued",  status |-> "creating"],
      [stage |-> "generating", stage_message |-> "working", status |-> "processing"],
      [stage |-> "completed",  stage_message |-> "ready",   status |-> "active"],
      [stage |-> "failed",     stage_message |-> "boom",    status |-> "error"] }

\* GET /directive/{id}: the "directive" object of a 200 response
ServerDirective(id) ==
    { [id |-> id, creation_stage |-> "completed", creation_message |-> "ready",
       status |-> "active", discovery |-> FALSE],
      [id |-> id, creation_stage |-> "failed", creation_message |-> "boom",
       status |-> "error", discovery |-> FALSE] }

\* GET /directive: the lists the remote API can deliver
ServerLists ==
    LET one(id) == [id |-> id, creation_stage |-> "completed",
                    creation_message |-> "ready", status |-> "active",
                    discovery |-> TRUE]
    IN  { <<>>, <<one("d2"), one("d1")>> }

FetchDelays == {0, MaxFetchDelay}

StartTimes == {0, MaxStartTime}

(***************************************************************************)
(* Helpers on the directive collection.                                    *)
(***************************************************************************)
\* if self.data and "directives" in self.data
Populated(d) == d.populated

HasEntry(d, id) == Populated(d) /\ \E i \in 1..Len(d.directives) : d.directives[i].id = id

\* next((d for d in directives if d.get("id") == directive_id), None)
FirstIndex(seq, id) ==
    IF \E i \in 1..Len(seq) : seq[i].id = id
    THEN CHOOSE i \in 1..Len(seq) :
            seq[i].id = id /\ \A j \in 1..(i - 1) : seq[j].id # id
    ELSE 0

\* mutant: the matching entry is rebuilt from the stage payload
MergeStage_Rebuilds(d, id, info) ==
    LET fresh == [id |-> id, creation_stage |-> info.stage,
                  creation_message |-> info.stage_message,
                  status |-> info.status, discovery |-> FALSE]
    IN  IF ~Populated(d) THEN d
        ELSE IF \E i \in 1..Len(d.directives) : d.directives[i].id = id
        THEN Data([i \in 1..Len(d.directives) |->
                      IF d.directives[i].id = id THEN fresh ELSE d.directives[i]])
        ELSE Data(Append(d.directives, [fresh EXCEPT !.status = "creating"]))

\* the non-terminal merge of async_poll_directive
MergeStage(d, id, info) ==
    IF ~Populated(d) THEN d
    ELSE LET old == d.directives
             updated == [i \in 1..Len(old) |->
                            IF old[i].id = id
                            THEN [old[i] EXCEPT !.creation_stage = info.stage,
                                                !.creation_message = info.stage_message,
                                                !.status = info.status]
                            ELSE old[i]]
         IN  IF \E i \in 1..Len(old) : old[i].id = id
             THEN Data(updated)
             ELSE Data(Append(updated,
                              [id |-> id, creation_stage |-> info.stage,
                               creation_message |-> info.stage_message,
                               status |-> "creating", discovery |-> FALSE]))

\* mutant: the timeout branch appends an error entry when it finds none
MarkTimedOut_Synthesize(d, id) ==
    LET failed == [id |-> id, creation_stage |-> "failed",
                   creation_message |-> TimeoutMessage, status |-> "error",
                   discovery |-> FALSE]
        i == FirstIndex(d.directives, id)
    IN  IF i = 0 THEN Data(Append(d.directives, failed))
        ELSE Data([d.directives EXCEPT ![i] =
                      [@ EXCEPT !.creation_stage = "failed",
                                !.creation_message = TimeoutMessage,
                                !.status = "error"]])

\* the while loop's else block: the timeout branch of async_poll_directive
MarkTimedOut(d, id) ==
    IF ~Populated(d) THEN d
    ELSE LET i == FirstIndex(d.directives, id)
         IN  IF i = 0 THEN d
             ELSE Data([d.directives EXCEPT ![i] =
                           [@ EXCEPT !.creation_stage = "failed",
                                     !.creation_message = TimeoutMessage,
                                     !.status = "error"]])

\* async_get_directive on a populated collection: drop the entries of id, append
SelectOthers(seq, id) == SelectSeq(seq, LAMBDA e : e.id # id)

\* mutant: the fetched directive is appended, the entries of id are kept
StoreDirective_Appends(d, id, directive) == Data(Append(d.directives, directive))

\* mutant: the fetched directive replaces the whole collection
StoreDirective_Alone(d, id, directive) == Data(<<directive>>)

StoreDirective(d, id, directive) ==
    Data(Append(SelectOthers(d.directives, id), directive))

\* DirektiveSensor.state: "unknown" without coordinator data, else str(len(...))
SensorState(d) ==
    IF ~Populated(d) THEN "unknown" ELSE ToString(Len(d.directives))

\* mutant: the attribute is always the sensor's own list
SensorDirectives_Own(d, own) == own

\* DirektiveSensor.extra_state_attributes["directives"]: the sensor's own list
\* without coordinator data, else the coordinator's
SensorDirectives(d, own) ==
    IF ~Populated(d) THEN own ELSE d.directives

\* DirektiveSensor.async_set_directive_state(directive_id, directive_data)
SensorSetDirective(seq, id, directive) ==
    LET i == FirstIndex(seq, id)
    IN  IF i = 0 THEN Append(seq, directive) ELSE [seq EXCEPT ![i] = directive]

(***************************************************************************)
(* The config entry and the values the other parts start from.             *)
(***************************************************************************)
\* DirektiveConfigFlow.async_step_entity_select: the entry the config flow
\* creates.  The flow always generates an encryption key and a webhook secret;
\* neither one-time flag is part of the data it writes.  `entities` is
\* CONF_ENTITIES, which the code reads as set(...) and writes as list(set).
NewEntry(plan) ==
    [exists |-> TRUE,
     api_key |-> "api-key",
     subscription_type |-> plan,
     webhook_secret |-> "s3cret",
     encryption_key |-> "k1",
     entities |-> {"light.kitchen"},
     webhook_registered_to_api |-> FALSE,
     initial_bulk_update_performed |-> FALSE]

\* hass.config_entries.async_get_entry(config_entry_id) returns None
NoEntry == [NewEntry("basic") EXCEPT !.exists = FALSE]

\* sub_data.get('plan', SUBSCRIPTION_TYPE_BASIC)
Plans == {"basic", "pro"}

\* a JSON value that is absent (dict.get returns None)
JAbsent ==
    [kind |-> "absent", domain |-> Null, service |-> Null, entity_id |-> Null,
     service_data |-> "absent"]

\* a JSON value that is not an object, such as [1]
JList == [JAbsent EXCEPT !.kind = "list"]

\* no ciphertext
NoCipher == [kind |-> "absent", key |-> Null, plain |-> JAbsent]

\* no request body
NoBody ==
    [raw |-> "none", kind |-> "none", encrypted_payload |-> NoCipher,
     service_call |-> JAbsent]

\* no response sent (yet)
NoResponse == [status |-> 0, body |-> "none"]

IdleWebhook ==
    [pc |-> "idle", secret |-> Null, body |-> NoBody, authenticated |-> FALSE,
     body_read |-> FALSE, decrypt_runs |-> 0, service_calls |-> 0,
     call |-> "none", response |-> NoResponse]

\* no async_setup_entry has run; setups counts the calls of async_setup_entry
\* and present the tracked entities async_start found a state for; entity_ids
\* is config.get(CONF_ENTITIES, []) as async_setup_entry read it
NotLoaded == [pc |-> "not_loaded", setups |-> 0, present |-> {}, entity_ids |-> {}]

\* the remote API's log: the POST /register-ha-webhook requests it received and
\* those it answered 2xx; the bulk POST /update-entity-state requests of
\* _send_bulk_update, those it answered 200, and those of them whose JSON body
\* the integration could parse
NothingSent ==
    [register_posts |-> 0, register_ok |-> 0, bulk_posts |-> 0,
     bulk_ok |-> 0, bulk_parsed |-> 0]

(***************************************************************************)
(* Entity states, publish payloads, and the idle values of the publisher,  *)
(* the WebSocket API, the API client and the snapshot log.                 *)
(***************************************************************************)
\* an empty dict
EmptyDict == [k \in {} |-> 0]

\* the dicts with keys among `keys` and values among `values`
Dicts(keys, values) == UNION {[S -> values] : S \in SUBSET keys}

\* {k: v for k, v in d.items() if k in keys}
Restrict(d, keys) == [k \in (DOMAIN d) \cap keys |-> d[k]]

\* hass.states.get(entity_id) returns None / to_state is None
NoState == [state |-> Null, attributes |-> EmptyDict]

\* the attribute keys of the entity states in the model: two of the keys the
\* publisher lets through and one it does not
AttributeKeys == {"brightness", "temperature", "friendly_name"}

AttributeValues == {1, 2}

\* State objects: state.state and state.attributes
EntityStates ==
    [state : {"on", "off"}, attributes : Dicts(AttributeKeys, AttributeValues)]

\* the state of sun.sun: none of its attributes is among those let through
SunStates ==
    {[state |-> "above_horizon", attributes |-> ("elevation" :> 1) @@ ("rising" :> 2)]}

\* no request body was built
NoPayload ==
    [kind |-> "none", data |-> NoCipher, encrypted |-> FALSE, bulk |-> FALSE,
     refresh |-> FALSE]

\* a JSON list
JsonList(items) == [kind |-> "list", items |-> items]

\* response_data without "triggered_scenarios"
NoScenarios == [kind |-> "absent", key |-> Null, plain |-> JsonList(<<>>)]

\* the Direktive object after async_start, nothing being published.  `source`
\* is what is being published, `sent` the body of the POST, `posts` the POSTs
\* issued for it, `reply` how the POST ended, `arrival` the form in which
\* triggered_scenarios arrived; `batch`, `i`, `j`, `service`, `calls` and
\* `ended` belong to _handle_triggered_scenarios.
IdlePublisher ==
    [pc |-> "idle", kind |-> "none", source |-> <<>>, sent |-> NoPayload,
     posts |-> 0, reply |-> "none", arrival |-> "none", arrival_key |-> Null,
     entered |-> FALSE,
     batch |-> <<>>, i |-> 1, j |-> 1, service |-> Null, calls |-> <<>>,
     ended |-> "none"]

\* the body of an API response that parses as a JSON object
JsonBody(text, json) == [parses |-> TRUE, text |-> text, json |-> json]

\* the body of an API response that is no JSON
TextBody(text) == [parses |-> FALSE, text |-> text, json |-> EmptyDict]

\* no response
NoReply == TextBody("")

\* what a coordinator operation returned: nothing yet or None ("none"), the
\* parsed body ("body"), a member of the parsed body ("member", json holding
\* that member under its key) or True ("true")
NoResult == [kind |-> "none", json |-> EmptyDict]

\* the exception a coordinator operation raised: the operation naming itself in
\* the message, the HTTP status in the message (0: none) and the response text
\* in the message (None: none)
NoError == [operation |-> "none", status |-> 0, text |-> None]

\* the attributes the WebSocket handlers set on the sensor
NoAttrs == [creating |-> FALSE, error |-> FALSE, deleting |-> FALSE]

\* no WebSocket command is being handled.  `type` and `id` are the message's
\* type and id, `step` counts the coordinator calls the handler has made,
\* `replies` is what connection.send_result and connection.send_error were
\* given for this message, `has_sensor` and `attrs` are the sensor registered in
\* hass.data and its attributes
IdleSocket ==
    [pc |-> "idle", type |-> "none", id |-> 0, directive_id |-> Null, step |-> 0,
     replies |-> <<>>, has_sensor |-> TRUE, attrs |-> NoAttrs]

\* no API operation is in progress.  `name` is the coordinator method, `caller`
\* who awaits it, `status` and `body` the HTTP response, `outcome`, `result` and
\* `error` how the method ended, `tasks` the coroutines handed to
\* hass.async_create_task and not started yet
IdleOperation ==
    [pc |-> "idle", name |-> "none", caller |-> "none", directive_id |-> Null,
     status |-> 0, body |-> NoReply, outcome |-> "none", result |-> NoResult,
     error |-> NoError, tasks |-> {}]

\* what the coordinator's listeners were given: `cur` is the contents of the
\* snapshot published last, as published; `intact` tells whether the snapshot it
\* replaced still holds what it held when it was published; `by` names the code
\* that published last
NoSnapshots == [cur |-> NoData, intact |-> TRUE, by |-> "none"]

\* a poll task of the side-by-side polls: wrote is the stage it last merged into
\* the collection (Null: none since the last refresh)
IdleTask == [pc |-> "idle", wrote |-> Null, rounds |-> 0]

\* no async_poll_directive task has been created
NoPolls == [id \in DirectiveIds |-> IdleTask]

\* before async_setup_entry: loaded tells whether the entry is set up, unloads
\* counts async_unload_entry; coordinator and publisher are the session
\* attributes of DirektiveCoordinator and Direktive ("none" for None), opened
\* and closed count the ClientSession objects created and closed, handler is
\* the state-change task in flight
NoSessions ==
    [loaded |-> FALSE, unloads |-> 0, coordinator |-> "none", publisher |-> "none",
     opened |-> 0, closed |-> 0, handler |-> "idle"]

\* no options flow is open.  pc is where async_step_init stands; `selected`,
\* `subscription_type`, `encryption_key` and `webhook_secret` are what
\* OptionsFlowHandler.__init__ copied from the entry, `new_entities` the
\* submitted selection, `sent` the body of the POST, `status` the status of the
\* last response (0 for none) and `errors` what the form shows
NoFlow ==
    [pc |-> "closed", selected |-> {}, subscription_type |-> Null,
     encryption_key |-> Null, webhook_secret |-> Null, new_entities |-> {},
     sent |-> NoPayload, status |-> 0, errors |-> "none"]

RestIdle ==
    /\ pub = IdlePublisher
    /\ ws = IdleSocket
    /\ op = IdleOperation
    /\ snap = NoSnapshots
    /\ polls = NoPolls
    /\ sess = NoSessions
    /\ flow = NoFlow

(***************************************************************************)
(* async_poll_directive.  Code between two awaits runs as one step of the  *)
(* event loop, so each action is one such stretch.                         *)
(***************************************************************************)
\* pc, id, start_time, stage and result are the coroutine's position, argument,
\* locals and return value; stage_fetches, directive_fetches and sleeps count the
\* calls it has made; seen is the stages it was given (see Remember), slow whether
\* an exchange took time, fetched the body of the directive fetch
IdlePoll ==
    [pc |-> "idle", id |-> Null, start_time |-> 0, stage |-> Null,
     stage_fetches |-> 0, directive_fetches |-> 0, sleeps |-> 0, seen |-> <<>>,
     slow |-> FALSE, exit |-> "none", fetched |-> None, result |-> None]

\* mutant: the elif branch for "completed" is lost
IsTerminal_OnlyFailed(stage) == stage = "failed"

\* mutant: the elif branch for "failed" is lost
IsTerminal_OnlyCompleted(stage) == stage = "completed"

\* if stage == "completed": ... elif stage == "failed": ...
IsTerminal(stage) == stage \in {"completed", "failed"}

\* the stages a poll was given, in order; <<"...">> once more than HistLen
Remember(seen, stage) ==
    IF seen # <<"...">> /\ Len(seen) < HistLen THEN Append(seen, stage) ELSE <<"...">>

\* mutant: <= for <
LoopCondition_Inclusive(t, start) == (t - start) <= PollTimeout

\* while (loop.time() - start_time) < 380
LoopCondition(t, start) == (t - start) < PollTimeout

\* the top of the while loop, reached at time t: either the next stage fetch is
\* issued or the else block runs and the coroutine returns None
LoopTop(p, t) ==
    IF LoopCondition(t, p.start_time)
    THEN [p EXCEPT !.pc = "await_stage", !.stage_fetches = @ + 1]
    ELSE [p EXCEPT !.pc = "returned", !.exit = "timeout", !.result = None]

LoopTopData(p, t, d) ==
    IF LoopCondition(t, p.start_time) THEN d ELSE MarkTimedOut(d, p.id)

\* hass.async_create_task(self.async_poll_directive(directive_id))
PollStart(id) ==
    /\ poll.pc = "idle"
    /\ LET p == [IdlePoll EXCEPT !.id = id, !.start_time = now]
       IN  /\ poll' = LoopTop(p, now)
           /\ data' = LoopTopData(p, now, data)
    /\ UNCHANGED <<now, sensor_directives, entry, wh, setup, api, restVars>>

\* the stage fetch answers 200 with a stage payload after `delay` seconds
StageResponse(info, delay) ==
    /\ poll.pc = "await_stage"
    /\ now' = now + delay
    /\ LET p == [poll EXCEPT !.stage = info.stage,
                             !.seen = Remember(@, info.stage),
                             !.slow = @ \/ delay > 0]
       IN  IF IsTerminal(info.stage)
           THEN /\ poll' = [p EXCEPT !.pc = "await_directive",
                                     !.directive_fetches = @ + 1]
                /\ data' = data
           ELSE /\ poll' = [p EXCEPT !.pc = "sleeping", !.sleeps = @ + 1]
                /\ data' = MergeStage(data, poll.id, info)
    /\ UNCHANGED <<sensor_directives, entry, wh, setup, api, restVars>>

\* mutant: the loop goes on to the next stage fetch after a failed one
StageError_Retries(delay) ==
    /\ poll.pc = "await_stage"
    /\ now' = now + delay
    /\ poll' = [poll EXCEPT !.exit = "stage_error", !.stage_fetches = @ + 1]
    /\ UNCHANGED <<data, sensor_directives, entry, wh, setup, api, restVars>>

\* async_get_directive_stage raises (network error, parse error, non-200)
StageError(delay) ==
    /\ poll.pc = "await_stage"
    /\ now' = now + delay
    /\ poll' = [poll EXCEPT !.pc = "raised", !.exit = "stage_error",
                            !.slow = @ \/ delay > 0]
    /\ UNCHANGED <<data, sensor_directives, entry, wh, setup, api, restVars>>

\* asyncio.sleep(10) is over: back to the top of the loop
SleepDone ==
    /\ poll.pc = "sleeping"
    /\ now' = now + PollInterval
    /\ poll' = LoopTop(poll, now')
    /\ data' = LoopTopData(poll, now', data)
    /\ UNCHANGED <<sensor_directives, entry, wh, setup, api, restVars>>

\* async_get_directive answers 200 with a directive object
DirectiveResponse(directive, delay) ==
    /\ poll.pc = "await_directive"
    /\ now' = now + delay
    /\ poll' = [poll EXCEPT !.pc = "returned", !.exit = "terminal",
                            !.fetched = Some(directive),
                            !.result = Some(directive)]
    /\ IF Populated(data)
       THEN /\ data' = StoreDirective(data, poll.id, directive)
            /\ UNCHANGED sensor_directives
       ELSE /\ sensor_directives' = SensorSetDirective(sensor_directives, poll.id, directive)
            /\ UNCHANGED data
    /\ UNCHANGED <<entry, wh, setup, api, restVars>>

\* async_get_directive answers 200 without a "directive" key: returns None
DirectiveMissing(delay) ==
    /\ poll.pc = "await_directive"
    /\ now' = now + delay
    /\ poll' = [poll EXCEPT !.pc = "returned", !.exit = "terminal", !.result = None]
    /\ UNCHANGED <<data, sensor_directives, entry, wh, setup, api, restVars>>

\* async_get_directive raises (network error or non-200)
DirectiveError(delay) ==
    /\ poll.pc = "await_directive"
    /\ now' = now + delay
    /\ poll' = [poll EXCEPT !.pc = "raised", !.exit = "directive_error"]
    /\ UNCHANGED <<data, sensor_directives, entry, wh, setup, api, restVars>>

\* a coordinator refresh completes: data is replaced by the list of the API
Refresh(list) ==
    /\ data' = list
    /\ data' # data
    /\ UNCHANGED <<now, sensor_directives, poll, entry, wh, setup, api, restVars>>

PollInit ==
    /\ now \in StartTimes
    /\ data = NoData
    /\ sensor_directives = <<>>
    /\ poll = IdlePoll
    /\ entry = NewEntry("pro")
    /\ wh = IdleWebhook
    /\ setup = NotLoaded
    /\ api = NothingSent
    /\ RestIdle

PollStep ==
    \/ \E info \in StagePayloads, delay \in FetchDelays : StageResponse(info, delay)
    \/ SleepDone
    \/ \E delay \in FetchDelays :
          \/ \E dir \in ServerDirective(poll.id) : DirectiveResponse(dir, delay)
          \/ DirectiveMissing(delay)
          \/ DirectiveError(delay)

PollNext ==
    \/ \E id \in DirectiveIds : PollStart(id)
    \/ PollStep
    \/ \E delay \in FetchDelays : StageError(delay)
    \/ \E list \in ServerLists : Refresh(Data(list))
    \/ Refresh(NoData)

SpecPoll == PollInit /\ [][PollNext]_vars

\* every stage fetch and every directive fetch completes, and the sleep ends
FairSpecPoll == SpecPoll /\ WF_vars(PollStep)

(***************************************************************************)
(* encryption.py                                                           *)
(***************************************************************************)
\* should_encrypt: returns True whatever the subscription type
should_encrypt(subscription_type) == TRUE

\* encrypt_data: AES-256-CBC of json.dumps(data) under the key
encrypt_data(value, key) == [kind |-> "cipher", key |-> key, plain |-> value]

\* decrypt_data returns (it raises on bad base64, a wrong key or bad padding,
\* and when the plaintext is not JSON)
CanDecrypt(cipher, key) ==
    /\ cipher.kind = "cipher"
    /\ key # Null
    /\ cipher.key = key
    /\ cipher.plain.kind # "text"

\* decrypt_data: json.loads of the plaintext
decrypt_data(cipher, key) == cipher.plain

(***************************************************************************)
(* webhook.py: async_handle_webhook                                        *)
(***************************************************************************)
\* HTTPStatus.OK
HTTP_OK == 200

\* HTTPStatus.BAD_REQUEST
HTTP_BAD_REQUEST == 400

\* HTTPStatus.UNAUTHORIZED
HTTP_UNAUTHORIZED == 401

\* HTTPStatus.INTERNAL_SERVER_ERROR
HTTP_INTERNAL_SERVER_ERROR == 500

\* the X-Webhook-Secret header of a request: absent, right or wrong
Secrets == {Null, "s3cret", "wrong"}

\* the payload under "service_call" or inside the ciphertext, when a JSON object
ServiceCallDicts ==
    [kind : {"dict"},
     domain : {Null, "light"},
     service : {Null, "turn_on", "missing"},
     entity_id : {Null, "light.kitchen"},
     service_data : {"absent", "dict", "scalar"}]

\* what a ciphertext can hold: an object, a list, or text that is not JSON
Plaintexts == ServiceCallDicts \cup {JList, [JAbsent EXCEPT !.kind = "text"]}

Ciphertexts ==
    {[kind |-> "garbage", key |-> Null, plain |-> JAbsent]}
        \cup {encrypt_data(v, k) : v \in Plaintexts, k \in {"k1", "k2"}}

\* request bodies: unreadable, empty, not UTF-8, not JSON, a JSON list, or a
\* JSON object with an "encrypted_payload", a "service_call", or neither
Bodies ==
    {[NoBody EXCEPT !.raw = r] : r \in {"unreadable", "empty", "not_utf8", "not_json"}}
        \cup {[NoBody EXCEPT !.raw = "json", !.kind = "list"]}
        \cup {[NoBody EXCEPT !.raw = "json", !.kind = "object", !.encrypted_payload = c] :
                c \in Ciphertexts \cup {NoCipher}}
        \cup {[NoBody EXCEPT !.raw = "json", !.kind = "object", !.service_call = v] :
                v \in ServiceCallDicts \cup {JList}}

\* hass.services.has_service(domain, service)
HasService(domain, service) == domain = "light" /\ service = "turn_on"

\* what the handler does next: return a response, raise, or call a service
Respond(status, body, decrypts) ==
    [kind |-> "respond", status |-> status, body |-> body, decrypts |-> decrypts,
     domain |-> Null, service |-> Null]

Raise(decrypts) ==
    [kind |-> "raise", status |-> 0, body |-> "none", decrypts |-> decrypts,
     domain |-> Null, service |-> Null]

Call(domain, service, decrypts) ==
    [kind |-> "call", status |-> 0, body |-> "none", decrypts |-> decrypts,
     domain |-> domain, service |-> service]

\* mutant: an absent header is let through
Authorized_AbsentPasses(expected, received) ==
    expected # Null /\ (received = Null \/ received = expected)

\* not (not expected_secret or not received_secret or received != expected)
Authorized(expected, received) ==
    expected # Null /\ received # Null /\ received = expected

\* lines 135-168: validation of service_call_data up to the service call
ValidateServiceCall(v, decrypts) ==
    IF v.kind # "dict"
    THEN Respond(HTTP_BAD_REQUEST, "text", decrypts)
    ELSE IF v.domain = Null \/ v.service = Null
    THEN Respond(HTTP_BAD_REQUEST, "text", decrypts)
    ELSE IF v.entity_id # Null /\ v.service_data = "scalar"
    THEN Raise(decrypts)
    ELSE IF ~HasService(v.domain, v.service)
    THEN Respond(HTTP_BAD_REQUEST, "text", decrypts)
    ELSE Call(v.domain, v.service, decrypts)

\* lines 103-132: the tier branch that extracts service_call_data
ExtractServiceCall(e, body) ==
    IF should_encrypt(e.subscription_type)
    THEN IF e.encryption_key = Null
         THEN Respond(HTTP_INTERNAL_SERVER_ERROR, "text", 0)
         ELSE IF body.kind # "object"
         THEN Raise(0)
         ELSE IF body.encrypted_payload.kind = "absent"
         THEN Respond(HTTP_BAD_REQUEST, "text", 0)
         ELSE IF ~CanDecrypt(body.encrypted_payload, e.encryption_key)
         THEN Respond(HTTP_BAD_REQUEST, "text", 1)
         ELSE ValidateServiceCall(decrypt_data(body.encrypted_payload, e.encryption_key), 1)
    ELSE IF body.kind # "object"
         THEN Raise(0)
         ELSE IF body.service_call.kind = "absent"
         THEN Respond(HTTP_BAD_REQUEST, "text", 0)
         ELSE ValidateServiceCall(body.service_call, 0)

\* lines 87-101: reading and parsing the body
AfterRead(e, body) ==
    IF body.raw = "unreadable"
    THEN Respond(HTTP_INTERNAL_SERVER_ERROR, "text", 0)
    ELSE IF body.raw = "empty"
    THEN Respond(HTTP_BAD_REQUEST, "text", 0)
    ELSE IF body.raw = "not_utf8"
    THEN Respond(HTTP_INTERNAL_SERVER_ERROR, "text", 0)
    ELSE IF body.raw = "not_json"
    THEN Respond(HTTP_BAD_REQUEST, "text", 0)
    ELSE ExtractServiceCall(e, body)

\* mutant: a raising service call is answered 200 like a completed one
ServiceCallResponse_Always200(raised) ==
    IF raised
    THEN [status |-> HTTP_OK, body |-> "success_false_error"]
    ELSE [status |-> HTTP_OK, body |-> "success_true_message"]

\* lines 181-192: the response once the service call was attempted
ServiceCallResponse(raised) ==
    IF raised
    THEN [status |-> HTTP_INTERNAL_SERVER_ERROR, body |-> "success_false_error"]
    ELSE [status |-> HTTP_OK, body |-> "success_true_message"]

\* a request arrives: lines 71-85, up to `await request.read()`
WebhookReceive(secret, body) ==
    /\ wh.pc \in {"idle", "responded", "raised"}
    /\ LET req == [IdleWebhook EXCEPT !.secret = secret, !.body = body]
       IN  IF ~entry.exists
           THEN wh' = [req EXCEPT !.pc = "responded",
                                  !.response = [status |-> HTTP_INTERNAL_SERVER_ERROR,
                                                body |-> "text"]]
           ELSE IF ~Authorized(entry.webhook_secret, secret)
           THEN wh' = [req EXCEPT !.pc = "responded",
                                  !.response = [status |-> HTTP_UNAUTHORIZED,
                                                body |-> "text"]]
           ELSE wh' = [req EXCEPT !.pc = "reading", !.authenticated = TRUE]
    /\ UNCHANGED <<now, data, sensor_directives, poll, entry, setup, api, restVars>>

\* request.read() is over: lines 88-173, up to `await hass.services.async_call`
WebhookBodyRead ==
    /\ wh.pc = "reading"
    /\ LET out == AfterRead(entry, wh.body)
           read == [wh EXCEPT !.body_read = TRUE, !.decrypt_runs = out.decrypts]
       IN  wh' = CASE out.kind = "respond" ->
                        [read EXCEPT !.pc = "responded",
                                     !.response = [status |-> out.status, body |-> out.body]]
                   [] out.kind = "raise" ->
                        [read EXCEPT !.pc = "raised"]
                   [] out.kind = "call" ->
                        [read EXCEPT !.pc = "calling", !.service_calls = @ + 1]
    /\ UNCHANGED <<now, data, sensor_directives, poll, entry, setup, api, restVars>>

\* the blocking service call completes or raises: lines 173-192.  A call whose
\* service_data is not a mapping cannot complete.
WebhookServiceDone(raised) ==
    /\ wh.pc = "calling"
    /\ ~raised => (LET v == IF wh.body.service_call.kind = "dict"
                            THEN wh.body.service_call
                            ELSE wh.body.encrypted_payload.plain
                   IN  v.service_data # "scalar")
    /\ wh' = [wh EXCEPT !.pc = "responded",
                        !.call = IF raised THEN "raised" ELSE "completed",
                        !.response = ServiceCallResponse(raised)]
    /\ UNCHANGED <<now, data, sensor_directives, poll, entry, setup, api, restVars>>

WebhookInit ==
    /\ now = 0
    /\ data = NoData
    /\ sensor_directives = <<>>
    /\ poll = IdlePoll
    /\ entry \in {NewEntry(plan) : plan \in Plans} \cup {NoEntry}
    /\ wh = IdleWebhook
    /\ setup = NotLoaded
    /\ api = NothingSent
    /\ RestIdle

WebhookNext ==
    \/ \E secret \in Secrets, body \in Bodies : WebhookReceive(secret, body)
    \/ WebhookBodyRead
    \/ \E raised \in BOOLEAN : WebhookServiceDone(raised)

SpecWebhook == WebhookInit /\ [][WebhookNext]_vars

(***************************************************************************)
(* Properties of the poll loop.                                            *)
(***************************************************************************)
PendingPendingCompleted == <<"pending", "pending", "completed">>

\* C1 (as amended): a poll that was given the stages pending, pending, completed
\* has made exactly 3 stage fetches (one per stage it was given), 2 sleeps and
\* exactly 1 directive fetch, and what it returns is what that fetch delivered.
C1_ThreeStageFetchesOneDirectiveFetch ==
    poll.seen = PendingPendingCompleted =>
        /\ poll.stage_fetches = 3
        /\ poll.sleeps = 2
        /\ poll.directive_fetches = 1
        /\ poll.pc \in {"await_directive", "returned", "raised"}
        /\ (poll.pc = "returned" => poll.result = poll.fetched)

\* C1 witness: such a poll has returned the directive it fetched
C1_Witness ==
    /\ poll.seen = PendingPendingCompleted
    /\ poll.pc = "returned"
    /\ poll.result # None

\* C1 as stated: for the stages pending, pending, completed the loop performs
\* exactly 2 stage fetches and 1 directive fetch, then returns the directive.
C1_Original ==
    (poll.seen = PendingPendingCompleted /\ poll.pc = "returned") =>
        /\ poll.stage_fetches = 2
        /\ poll.directive_fetches = 1
        /\ poll.result = poll.fetched

\* C2: once a stage fetch has returned completed or failed, the loop has issued
\* exactly one directive fetch, no stage fetch and no sleep after that stage
\* fetch, and it returns what the directive fetch delivered, for failed as for
\* completed; it raises only if the directive fetch itself raised.
C2_TerminalStageResolvesByOneFetch ==
    poll.stage \in {"completed", "failed"} =>
        /\ poll.pc \in {"await_directive", "returned", "raised"}
        /\ poll.directive_fetches = 1
        /\ poll.stage_fetches = poll.sleeps + 1
        /\ (poll.pc = "returned" => poll.exit = "terminal" /\ poll.result = poll.fetched)
        /\ (poll.pc = "raised" => poll.exit = "directive_error")

\* C2 witness: a failed stage ended in the directive record being returned
C2_Witness ==
    /\ poll.stage = "failed"
    /\ poll.pc = "returned"
    /\ poll.result # None
    /\ poll.sleeps > 0

TimeoutStep == poll.exit # "timeout" /\ poll'.exit = "timeout"

\* the entry of id was marked failed/error where it stood, nothing else changed
MarkedInPlace(before, after, id) ==
    /\ after.populated
    /\ Len(after.directives) = Len(before.directives)
    /\ \E i \in 1..Len(before.directives) :
          /\ before.directives[i].id = id
          /\ after.directives[i].id = id
          /\ after.directives[i].creation_stage = "failed"
          /\ after.directives[i].status = "error"
          /\ after.directives[i].discovery = before.directives[i].discovery
          /\ \A j \in 1..Len(before.directives) :
                j # i => after.directives[j] = before.directives[j]

\* C4 (as amended): when async_poll_directive(id) times out, an entry for id
\* that exists in the collection at that moment is set to creation_stage
\* "failed" and status "error" where it stands; if the collection is
\* unpopulated or holds no entry for id, it is left exactly as it was: no error
\* entry is synthesized.  The sensor's own list is not touched either way.
C4_TimeoutMarksExistingEntryOnly ==
    [][TimeoutStep =>
        /\ IF HasEntry(data, poll.id)
           THEN MarkedInPlace(data, data', poll.id)
           ELSE data' = data
        /\ sensor_directives' = sensor_directives]_vars

\* C4 witness: a timed-out poll has left its mark on an existing entry
C4_Witness ==
    /\ poll.exit = "timeout"
    /\ \E i \in 1..Len(data.directives) :
          /\ data.directives[i].id = poll.id
          /\ data.directives[i].creation_message = TimeoutMessage
          /\ data.directives[i].status = "error"

\* C4 as stated: after the timeout the collection holds an entry for id with
\* creation_stage "failed" and status "error", synthesized if none existed.
C4_Original ==
    [][TimeoutStep =>
        \E i \in 1..Len(data'.directives) :
          /\ data'.directives[i].id = poll.id
          /\ data'.directives[i].creation_stage = "failed"
          /\ data'.directives[i].status = "error"]_vars

(***************************************************************************)
(* Properties of the webhook.                                              *)
(***************************************************************************)
\* a request that would end in a service call if it were let through
ValidEncryptedBody ==
    [NoBody EXCEPT !.raw = "json", !.kind = "object",
                   !.encrypted_payload =
                       encrypt_data([kind |-> "dict", domain |-> "light",
                                     service |-> "turn_on",
                                     entity_id |-> "light.kitchen",
                                     service_data |-> "dict"], "k1")]

\* C5: a request to an existing config entry whose X-Webhook-Secret header is
\* absent or differs from the persisted secret is answered 401 at once: its
\* body is not read, decrypt_data is not run and no service is called.
C5_BadSecretIsRejectedUnread ==
    (entry.exists /\ wh.pc # "idle" /\ wh.secret # entry.webhook_secret) =>
        /\ wh.pc = "responded"
        /\ wh.response.status = HTTP_UNAUTHORIZED
        /\ ~wh.body_read
        /\ wh.decrypt_runs = 0
        /\ wh.service_calls = 0
        /\ wh.call = "none"

\* C5 witness: a request with a wrong secret and an otherwise valid body got 401
C5_Witness ==
    /\ entry.exists
    /\ wh.secret = "wrong"
    /\ wh.body = ValidEncryptedBody
    /\ wh.pc = "responded"
    /\ wh.response.status = HTTP_UNAUTHORIZED

\* a payload with one of the defects the claim lists (and a well-formed
\* service_data, so that the listed defect is the only one)
MalformedPayload(v) ==
    /\ v.service_data # "scalar"
    /\ \/ v.kind # "dict"
       \/ v.domain = Null
       \/ v.service = Null
       \/ ~HasService(v.domain, v.service)

\* a body that is malformed whichever of the two schemas is expected of it
MalformedBody(e, body) ==
    \/ body.raw \in {"empty", "not_json"}
    \/ body.raw = "json" /\ body.kind = "list"
    \/ /\ body.kind = "object"
       /\ body.encrypted_payload.kind = "absent"
       /\ body.service_call.kind = "absent"
    \/ /\ body.kind = "object"
       /\ body.encrypted_payload.kind # "absent"
       /\ \/ ~CanDecrypt(body.encrypted_payload, e.encryption_key)
          \/ MalformedPayload(body.encrypted_payload.plain)
    \/ /\ body.kind = "object"
       /\ body.service_call.kind # "absent"
       /\ MalformedPayload(body.service_call)

\* C6 as stated: an authenticated request with a malformed body is answered
\* 400 and causes no service call.
C6_Original ==
    (/\ entry.exists
     /\ wh.authenticated
     /\ wh.pc \in {"responded", "raised"}
     /\ MalformedBody(entry, wh.body)) =>
        /\ wh.pc = "responded"
        /\ wh.response.status = HTTP_BAD_REQUEST
        /\ wh.service_calls = 0

\* C7 as stated: on the basic tier an authenticated request with a plain
\* {service_call: {domain, service, ...}} naming an existing service has the
\* service called and, the call completing, is answered 200.
C7_Original ==
    (/\ entry.exists
     /\ entry.subscription_type = "basic"
     /\ wh.authenticated
     /\ wh.pc \in {"responded", "raised"}
     /\ wh.body.kind = "object"
     /\ wh.body.service_call.kind = "dict"
     /\ HasService(wh.body.service_call.domain, wh.body.service_call.service)
     /\ wh.body.service_call.service_data # "scalar"
     /\ wh.call # "raised") =>
        /\ wh.service_calls = 1
        /\ wh.pc = "responded"
        /\ wh.response.status = HTTP_OK

TrackedEntities == {"light.kitchen", "sun.sun"}

\* the statuses the registration endpoint answers with
RegisterStatuses == {200, 201, 500}

\* the statuses the bulk endpoint answers with
BulkStatuses == {200, 201, 500}

\* mutant: any answer counts as a registration
RegistrationSucceeded_AnyStatus(status) == TRUE

\* if 200 <= response.status < 300
RegistrationSucceeded(status) == 200 <= status /\ status < 300

\* mutant: the registration flag is not consulted
RegistrationDue_IgnoresFlag(e) ==
    e.webhook_secret # Null /\ e.api_key # Null

\* lines 75-81: if not entry.data.get(CONF_WEBHOOK_REGISTERED_TO_API) and
\* if webhook_secret and current_api_key
RegistrationDue(e) ==
    /\ ~e.webhook_registered_to_api
    /\ e.webhook_secret # Null /\ e.api_key # Null

\* if response.status != 200: ... return
BulkRejected(status) == status # 200

\* mutant: the flag is not consulted
BulkAlreadyPerformed_Never(e) == FALSE

\* if entry.data.get(CONF_INITIAL_BULK_UPDATE_PERFORMED, False): ... return
BulkAlreadyPerformed(e) == e.initial_bulk_update_performed

\* _send_bulk_update up to its POST: TRUE when the POST is issued.  `present`
\* are the tracked entities hass.states has a state for.
BulkPostIssued(e, present) ==
    /\ e.exists
    /\ ~BulkAlreadyPerformed(e)
    /\ present # {}
    /\ ~(should_encrypt(e.subscription_type) /\ e.encryption_key = Null)

\* sensor setup, Direktive(...) and async_start, reached with the entry e:
\* either the bulk POST is outstanding or setup is complete
StartMonitoring(e, present) ==
    /\ setup' = [setup EXCEPT !.pc = IF BulkPostIssued(e, present)
                                     THEN "bulk_posting" ELSE "loaded",
                               !.present = present]

BulkPostCount(e, present) == IF BulkPostIssued(e, present) THEN 1 ELSE 0

\* async_setup_entry is called: a new coordinator, then the first refresh
SetupStart ==
    /\ setup.pc = "not_loaded"
    /\ setup.setups < MaxSetups
    /\ setup' = [pc |-> "first_refresh", setups |-> setup.setups + 1, present |-> {},
                 entity_ids |-> entry.entities]
    /\ data' = NoData
    /\ UNCHANGED <<now, sensor_directives, poll, entry, wh, api, restVars>>

\* async_config_entry_first_refresh raises ConfigEntryNotReady: setup fails
FirstRefreshFails ==
    /\ setup.pc = "first_refresh"
    /\ setup' = [setup EXCEPT !.pc = "not_loaded"]
    /\ UNCHANGED <<now, data, sensor_directives, poll, entry, wh, api, restVars>>

\* the first refresh delivers `list`; lines 61-123 up to the registration POST,
\* or, when that is skipped, on to async_start and _send_bulk_update
FirstRefreshDone(list, present) ==
    /\ setup.pc = "first_refresh"
    /\ data' = Data(list)
    /\ IF RegistrationDue(entry)
       THEN /\ setup' = [setup EXCEPT !.pc = "registering"]
            /\ api' = [api EXCEPT !.register_posts = @ + 1]
       ELSE /\ StartMonitoring(entry, present)
            /\ api' = [api EXCEPT !.bulk_posts = @ + BulkPostCount(entry, present)]
    /\ UNCHANGED <<now, sensor_directives, poll, entry, wh, restVars>>

\* POST /register-ha-webhook is answered: lines 123-133, then on to async_start
RegisterResponse(status, present) ==
    /\ setup.pc = "registering"
    /\ entry' = IF RegistrationSucceeded(status)
                THEN [entry EXCEPT !.webhook_registered_to_api = TRUE]
                ELSE entry
    /\ StartMonitoring(entry', present)
    /\ api' = [api EXCEPT
                 !.register_ok = @ + (IF status \in 200..299 THEN 1 ELSE 0),
                 !.bulk_posts = @ + BulkPostCount(entry', present)]
    /\ UNCHANGED <<now, data, sensor_directives, poll, wh, restVars>>

\* POST /register-ha-webhook raises: lines 140-141, then on to async_start
RegisterRaises(present) ==
    /\ setup.pc = "registering"
    /\ StartMonitoring(entry, present)
    /\ api' = [api EXCEPT !.bulk_posts = @ + BulkPostCount(entry, present)]
    /\ UNCHANGED <<now, data, sensor_directives, poll, entry, wh, restVars>>

\* the bulk POST is answered with `status`; `parsed` tells whether
\* response.json() returns; `refreshed` is what the coordinator refresh that
\* follows the flag delivers (lines 335-364)
BulkResponse(status, parsed, refreshed) ==
    /\ setup.pc = "bulk_posting"
    /\ setup' = [setup EXCEPT !.pc = "loaded"]
    /\ api' = [api EXCEPT
                 !.bulk_ok = @ + (IF status = 200 THEN 1 ELSE 0),
                 !.bulk_parsed = @ + (IF status = 200 /\ parsed THEN 1 ELSE 0)]
    /\ IF BulkRejected(status) \/ ~parsed
       THEN UNCHANGED <<entry, data>>
       ELSE /\ entry' = [entry EXCEPT !.initial_bulk_update_performed = TRUE]
            /\ data' = refreshed
    /\ UNCHANGED <<now, sensor_directives, poll, wh, restVars>>

\* the bulk POST raises: lines 362-364
BulkRaises ==
    /\ setup.pc = "bulk_posting"
    /\ setup' = [setup EXCEPT !.pc = "loaded"]
    /\ UNCHANGED <<now, data, sensor_directives, poll, entry, wh, api, restVars>>

\* async_unload_entry (also the first half of a reload, and a restart): the
\* coordinator and the Direktive object go, the config entry stays
Unload ==
    /\ setup.pc = "loaded"
    /\ setup' = [setup EXCEPT !.pc = "not_loaded"]
    /\ UNCHANGED <<now, data, sensor_directives, poll, entry, wh, api, restVars>>

SetupInit ==
    /\ now = 0
    /\ data = NoData
    /\ sensor_directives = <<>>
    /\ poll = IdlePoll
    /\ entry \in {NewEntry(plan) : plan \in Plans}
    /\ wh = IdleWebhook
    /\ setup = NotLoaded
    /\ api = NothingSent
    /\ RestIdle

SetupNext ==
    \/ SetupStart
    \/ FirstRefreshFails
    \/ \E list \in ServerLists, present \in SUBSET TrackedEntities :
          FirstRefreshDone(list, present)
    \/ \E status \in RegisterStatuses, present \in SUBSET TrackedEntities :
          RegisterResponse(status, present)
    \/ \E present \in SUBSET TrackedEntities : RegisterRaises(present)
    \/ \E status \in BulkStatuses, parsed \in BOOLEAN,
          refreshed \in {data} \cup {Data(list) : list \in ServerLists} :
          BulkResponse(status, parsed, refreshed)
    \/ BulkRaises
    \/ Unload

SpecSetup == SetupInit /\ [][SetupNext]_vars

(***************************************************************************)
(* Properties of the one-time flags.                                       *)
(***************************************************************************)
\* C9: webhook_registered_to_api is true only if the API answered some
\* POST /register-ha-webhook with a 2xx status, and
\* initial_bulk_update_performed only if it answered some bulk POST of
\* _send_bulk_update with 200; a step in which the call fails or raises does
\* not change either flag.
C9_FlagsOnlyAfterSuccess ==
    /\ [](entry.webhook_registered_to_api => api.register_ok > 0)
    /\ [](entry.initial_bulk_update_performed => api.bulk_ok > 0)
    /\ [][entry'.webhook_registered_to_api # entry.webhook_registered_to_api
             => api'.register_ok = api.register_ok + 1]_vars
    /\ [][entry'.initial_bulk_update_performed # entry.initial_bulk_update_performed
             => api'.bulk_ok = api.bulk_ok + 1]_vars

\* C9 witness: both flags are set, each after a failed and a successful call
C9_Witness ==
    /\ entry.webhook_registered_to_api
    /\ entry.initial_bulk_update_performed
    /\ api.register_posts = 2 /\ api.register_ok = 1
    /\ api.bulk_posts = 2 /\ api.bulk_ok = 1

TrackedOrder == <<"light.kitchen", "sun.sun">>

\* the entities state-change events are delivered for; the last is not tracked
EventEntities == TrackedEntities \cup {"switch.other"}

\* mutant: sun.sun is not added to the tracked set
IsTracked_ConfiguredOnly(entity_id) == entity_id \in TrackedEntities \ {"sun.sun"}

\* entity_id in self.entity_ids
IsTracked(entity_id) == entity_id \in TrackedEntities

\* ALLOWED_KEYS of _async_update_remote_state
ALLOWED_KEYS ==
    {"brightness", "color_temp", "rgb_color", "xy_color", "current_position",
     "current_temperature", "temperature", "hvac_mode", "preset_mode"}

\* mutant: the attributes are published unfiltered
SafeAttributes_Unfiltered(attributes) == attributes

\* safe_attributes of _async_update_remote_state
SafeAttributes(attributes) == Restrict(attributes, ALLOWED_KEYS)

\* safe_attributes of _send_bulk_update (its own list of the same keys)
BulkSafeAttributes(attributes) ==
    Restrict(attributes,
             {"brightness", "color_temp", "rgb_color", "xy_color",
              "current_position", "current_temperature", "temperature",
              "hvac_mode", "preset_mode"})

\* encrypt_data returns: base64.b64decode(None) raises
CanEncrypt(key) == key # Null

\* entities_data as it goes into the payload: encrypted when should_encrypt
EntitiesData(e, entities) ==
    IF should_encrypt(e.subscription_type)
    THEN encrypt_data(JsonList(entities), e.encryption_key)
    ELSE [kind |-> "list", key |-> Null, plain |-> JsonList(entities)]

\* the payload of _async_update_remote_state: "encrypted" is always False
SinglePayload(e, entity_id, state) ==
    [kind |-> "single",
     data |-> EntitiesData(e, <<[entity_id |-> entity_id, state |-> state.state,
                                 attributes |-> SafeAttributes(state.attributes)]>>),
     encrypted |-> FALSE, bulk |-> FALSE, refresh |-> FALSE]

\* the entities of `source` hass.states has a state for
PresentEntities(source) == SelectSeq(source, LAMBDA x : x.state # NoState)

\* the payload of _send_bulk_update
BulkPayload(e, source) ==
    LET present == PresentEntities(source)
    IN  [kind |-> "bulk",
         data |-> EntitiesData(e, [n \in 1..Len(present) |->
                     [entity_id |-> present[n].entity_id,
                      state |-> present[n].state.state,
                      attributes |-> BulkSafeAttributes(present[n].state.attributes)]]),
         encrypted |-> should_encrypt(e.subscription_type),
         bulk |-> TRUE, refresh |-> TRUE]

(***************************************************************************)
(* __init__.py: Direktive._handle_triggered_scenarios, the dispatcher.     *)
(***************************************************************************)
\* entity_id.split('.')[0] on the entity ids of the model
DomainOf(entity_id) ==
    CASE entity_id = "light.kitchen" -> "light"
      [] entity_id = "switch.fan" -> "switch"
      [] entity_id = "alarm_control_panel.home" -> "alarm_control_panel"
      [] entity_id = "cover.door" -> "cover"
      [] entity_id = "climate.hall" -> "climate"
      [] entity_id = "number.level" -> "number"
      [] entity_id = "fan.attic" -> "fan"

\* outcome.get("attributes", {}): the key absent, null, or a dict
AbsentAttributes == [kind |-> "absent", map |-> EmptyDict]

NullAttributes == [kind |-> "null", map |-> EmptyDict]

Attributes(map) == [kind |-> "dict", map |-> map]

\* an outcome that is a JSON object
Outcome(entity_id, state, attributes) ==
    [kind |-> "dict", entity_id |-> entity_id, state |-> state,
     attributes |-> attributes]

\* an outcome that is not a JSON object
TextOutcome ==
    [kind |-> "text", entity_id |-> Null, state |-> Null,
     attributes |-> AbsentAttributes]

\* a scenario with an "outcomes" list, and one without the key
Scenario(outcomes) == [has_outcomes |-> TRUE, outcomes |-> outcomes]

BareScenario == [has_outcomes |-> FALSE, outcomes |-> <<>>]

\* mutant: every attribute of the outcome is passed to light.turn_on
LightServiceData_AllAttributes(o) ==
    o.attributes.map @@ ("entity_id" :> o.entity_id)

\* lines 471-485: service_data of light.turn_on
LightServiceData(o) ==
    Restrict(o.attributes.map, {"brightness", "color_temp", "rgb_color", "xy_color"})
        @@ ("entity_id" :> o.entity_id)

\* mutant: the temperature is not set
ClimatePreCalls_None(o) == <<>>

\* lines 516-522: the set_temperature call the climate branch awaits itself
ClimatePreCalls(o) ==
    IF "temperature" \in DOMAIN o.attributes.map
    THEN <<[domain |-> "climate", service |-> "set_temperature",
            data |-> Restrict(o.attributes.map, {"temperature"})
                        @@ ("entity_id" :> o.entity_id)]>>
    ELSE <<>>

\* mutant: a position does not replace the service chosen by the state
CoverService_StateFirst(o, service) ==
    CASE o.state = "open" -> "open_cover"
      [] o.state = "closed" -> "close_cover"
      [] o.state = "stop" -> "stop_cover"
      [] OTHER -> IF o.attributes.kind = "dict" /\ "position" \in DOMAIN o.attributes.map
                  THEN "set_cover_position" ELSE service

\* lines 499-509: the service of a cover outcome; `service` is the local as the
\* earlier outcomes left it
CoverService(o, service) ==
    IF o.attributes.kind = "dict" /\ "position" \in DOMAIN o.attributes.map
    THEN "set_cover_position"
    ELSE CASE o.state = "open" -> "open_cover"
           [] o.state = "closed" -> "close_cover"
           [] o.state = "stop" -> "stop_cover"
           [] OTHER -> service

\* lines 506-509: service_data of a cover outcome
CoverServiceData(o) ==
    Restrict(o.attributes.map, {"position"}) @@ ("entity_id" :> o.entity_id)

\* mutant: only a missing entity_id makes an outcome invalid
IsInvalid_EntityOnly(o) == o.entity_id = Null

\* if not entity_id or new_state is None
IsInvalid(o) == o.entity_id = Null \/ o.state = Null

\* lines 469-530: the branch on the domain.  `service` is the function's local
\* variable, which keeps its value from one outcome to the next (Null: unbound);
\* `pre` are the calls the branch itself awaits; `type_error` tells that the
\* branch raised on `key in attributes` with attributes null.
DomainBranch(o, service) ==
    LET domain == DomainOf(o.entity_id)
        map == o.attributes.map
        isnull == o.attributes.kind = "null"
        base == "entity_id" :> o.entity_id
        out(srv, sdata, pre, err) ==
            [service |-> srv, data |-> sdata, pre |-> pre, type_error |-> err]
    IN  CASE domain = "light" ->
               IF o.state = "on"
               THEN out("turn_on", LightServiceData(o), <<>>, isnull)
               ELSE out("turn_off", base, <<>>, FALSE)
          [] domain = "switch" ->
               out(IF o.state = "on" THEN "turn_on" ELSE "turn_off", base, <<>>, FALSE)
          [] domain = "alarm_control_panel" ->
               IF o.state \in {"armed_home", "armed_away", "armed_night", "disarmed"}
               THEN out(o.state, Restrict(map, {"code"}) @@ base, <<>>, isnull)
               ELSE out(service, base, <<>>, FALSE)
          [] domain = "cover" ->
               IF isnull THEN out(CoverService(o, service), base, <<>>, TRUE)
               ELSE out(CoverService(o, service), CoverServiceData(o), <<>>, FALSE)
          [] domain = "climate" ->
               LET hvac == o.state \in {"heat", "cool", "auto", "off"}
                   srv == IF hvac THEN "set_hvac_mode" ELSE service
                   sdata == IF hvac THEN ("hvac_mode" :> o.state) @@ base ELSE base
               IN  IF isnull THEN out(srv, sdata, <<>>, TRUE)
                   ELSE out(srv, sdata, ClimatePreCalls(o), FALSE)
          [] domain = "number" ->
               out("set_value", ("value" :> o.state) @@ base, <<>>, FALSE)
          [] OTHER ->
               out(IF o.state = "on" THEN "turn_on" ELSE "turn_off", base, <<>>, FALSE)

\* lines 460-560: what the loop body does with one outcome.  `escapes`: an
\* exception leaves _handle_triggered_scenarios; `calls`: the service calls it
\* awaits, in order, when none of them raises; `service`: the local afterwards.
OutcomePlan(o, service) ==
    IF o.kind # "dict"
    THEN [escapes |-> TRUE, calls |-> <<>>, service |-> service]
    ELSE IF IsInvalid(o)
    THEN [escapes |-> FALSE, calls |-> <<>>, service |-> service]
    ELSE LET b == DomainBranch(o, service)
         IN  [escapes |-> FALSE,
              calls |-> IF b.type_error THEN <<>>
                        ELSE IF b.service = Null THEN b.pre
                        ELSE Append(b.pre, [domain |-> DomainOf(o.entity_id),
                                            service |-> b.service, data |-> b.data]),
              service |-> b.service]

\* the calls actually awaited when those numbered in `raises` raise: the first
\* raising call ends the outcome (the except clause of the loop body)
AttemptedCalls(calls, raises) ==
    IF \E n \in 1..Len(calls) : n \in raises
    THEN SubSeq(calls, 1, CHOOSE n \in 1..Len(calls) :
                              n \in raises /\ \A m \in 1..(n - 1) : m \notin raises)
    ELSE calls

RECURSIVE Settle(_, _, _)
\* the two for loops: from position (i, j) on to the next outcome to handle,
\* to the end of the batch, or to a scenario whose "outcomes" raises KeyError
Settle(batch, i, j) ==
    IF i > Len(batch) THEN [i |-> i, j |-> 1, ended |-> "done"]
    ELSE IF ~batch[i].has_outcomes THEN [i |-> i, j |-> 1, ended |-> "aborted"]
    ELSE IF j > Len(batch[i].outcomes) THEN Settle(batch, i + 1, 1)
    ELSE [i |-> i, j |-> j, ended |-> "none"]

(***************************************************************************)
(* What the publisher and the dispatcher are given.                        *)
(***************************************************************************)
LightAttributes ==
    {AbsentAttributes, NullAttributes, Attributes("brightness" :> 128),
     Attributes(("brightness" :> 128) @@ ("color_temp" :> 300) @@ ("rgb_color" :> 1)
                  @@ ("xy_color" :> 2) @@ ("transition" :> 5))}

\* the outcomes of the model: every branch of the dispatcher, outcomes with
\* entity_id or state missing, and one that is not an object
Outcomes ==
    {Outcome("light.kitchen", st, a) : st \in {"on", "off"}, a \in LightAttributes}
      \cup {Outcome("climate.hall", st, a) :
               st \in {"heat", "dry"},
               a \in {AbsentAttributes, Attributes("temperature" :> 21)}}
      \cup {Outcome(Null, "on", AbsentAttributes),
            Outcome("light.kitchen", Null, AbsentAttributes),
            TextOutcome}
      \cup {Outcome("switch.fan", st, AbsentAttributes) : st \in {"on", "off"}}
      \cup {Outcome("cover.door", st, AbsentAttributes) :
               st \in {"open", "closed", "stop", "ajar"}}
      \cup {Outcome("cover.door", st, Attributes("position" :> 50)) :
               st \in {"open", "ajar"}}
      \cup {Outcome("alarm_control_panel.home", "armed_home", Attributes("code" :> 1234)),
            Outcome("alarm_control_panel.home", "triggered", AbsentAttributes)}
      \cup {Outcome("number.level", "42", AbsentAttributes),
            Outcome("fan.attic", "on", AbsentAttributes)}

\* the outcomes that follow another one in a batch
FollowUps ==
    {Outcome("light.kitchen", "on", Attributes("brightness" :> 128)),
     Outcome("climate.hall", "dry", AbsentAttributes)}

\* outcomes whose branch assigns no service, and the outcomes they follow
UnknownStates ==
    {Outcome("alarm_control_panel.home", "triggered", AbsentAttributes),
     Outcome("cover.door", "ajar", AbsentAttributes)}

Leaders ==
    {Outcome("light.kitchen", "on", AbsentAttributes),
     Outcome("cover.door", "open", AbsentAttributes)}

Scenarios ==
    {Scenario(<<o>>) : o \in Outcomes}
      \cup {Scenario(<<o, f>>) : o \in Outcomes, f \in FollowUps}
      \cup {Scenario(<<o, f>>) : o \in Leaders, f \in UnknownStates}
      \cup {BareScenario, Scenario(<<>>)}

Batches ==
    {<<s>> : s \in Scenarios}
      \cup {<<s, Scenario(<<f>>)>> : s \in Scenarios, f \in FollowUps}

\* response_data["triggered_scenarios"]: absent, a plain list, or a ciphertext
TriggeredScenarios ==
    {NoScenarios}
      \cup {[kind |-> "list", key |-> Null, plain |-> JsonList(b)] : b \in Batches}
      \cup {encrypt_data(JsonList(b), k) : b \in Batches, k \in {"k1", "k2"}}

(***************************************************************************)
(* The publisher's and the dispatcher's steps.                             *)
(***************************************************************************)
\* _handle_triggered_scenarios is entered with `scenarios`: lines 453-456
EnterDispatcher(p, e, scenarios) ==
    LET decrypts == should_encrypt(e.subscription_type)
        readable == IF decrypts THEN CanDecrypt(scenarios, e.encryption_key)
                    ELSE scenarios.kind = "list"
        batch == IF decrypts THEN decrypt_data(scenarios, e.encryption_key).items
                 ELSE scenarios.plain.items
        at == Settle(batch, 1, 1)
    IN  IF ~readable
        THEN [p EXCEPT !.pc = "done", !.entered = TRUE, !.ended = "raised"]
        ELSE [p EXCEPT !.pc = IF at.ended = "none" THEN "dispatching" ELSE "done",
                       !.entered = TRUE, !.batch = batch, !.i = at.i, !.j = at.j,
                       !.ended = at.ended]

\* a state-change event is delivered: _handle_state_change and
\* _async_update_remote_state up to the POST (lines 385-427)
StateChange(entity_id, to_state) ==
    /\ pub.pc = "idle"
    /\ LET event == [IdlePublisher EXCEPT
                        !.pc = "done", !.kind = "event",
                        !.source = <<[entity_id |-> entity_id, state |-> to_state]>>]
       IN  pub' = IF ~IsTracked(entity_id) \/ to_state = NoState
                  THEN event
                  ELSE IF should_encrypt(entry.subscription_type)
                          /\ ~CanEncrypt(entry.encryption_key)
                  THEN [event EXCEPT !.reply = "raised"]
                  ELSE [event EXCEPT !.pc = "posting", !.posts = 1,
                                     !.sent = SinglePayload(entry, entity_id, to_state)]
    /\ UNCHANGED <<now, data, sensor_directives, poll, entry, wh, setup, api, ws, op, snap, laterVars>>

\* async_start calls _send_bulk_update: lines 278-334, up to the POST.
\* `states` is what hass.states has for the tracked entities.
StartPublisher(states) ==
    /\ pub.pc = "idle"
    /\ LET source == [n \in 1..Len(TrackedOrder) |->
                         [entity_id |-> TrackedOrder[n], state |-> states[n]]]
           present == {source[n].entity_id : n \in {m \in 1..Len(source) :
                                                      source[m].state # NoState}}
           start == [IdlePublisher EXCEPT !.pc = "done", !.kind = "bulk",
                                          !.source = source]
       IN  pub' = IF BulkPostIssued(entry, present)
                  THEN [start EXCEPT !.pc = "bulk_posting", !.posts = 1,
                                     !.sent = BulkPayload(entry, source)]
                  ELSE start
    /\ UNCHANGED <<now, data, sensor_directives, poll, entry, wh, setup, api, ws, op, snap, laterVars>>

\* the POST is answered: `if response.status != 200: ... return`, else on to
\* `await response.json()`; the request built for the POST is history then
PublishStatus(status) ==
    /\ pub.pc \in {"posting", "bulk_posting"}
    /\ pub' = IF status # 200
              THEN [pub EXCEPT !.pc = "done", !.reply = "failed"]
              ELSE [pub EXCEPT !.pc = "parsing", !.source = <<>>, !.sent = NoPayload]
    /\ UNCHANGED <<now, data, sensor_directives, poll, entry, wh, setup, api, ws, op, snap, laterVars>>

\* the POST or response.json() raises: the except clause of the publishing method
PublishRaises ==
    /\ pub.pc \in {"posting", "bulk_posting", "parsing"}
    /\ pub' = [pub EXCEPT !.pc = "done",
                          !.reply = IF pub.pc = "parsing" THEN "unparsed" ELSE "raised"]
    /\ UNCHANGED <<now, data, sensor_directives, poll, entry, wh, setup, api, ws, op, snap, laterVars>>

\* response.json() returns: lines 436-441 of _async_update_remote_state, lines
\* 343-360 of _send_bulk_update (the flag, the coordinator refresh, and the
\* triggered scenarios)
PublishBody(scenarios, refreshed) ==
    /\ pub.pc = "parsing"
    /\ IF pub.kind = "bulk"
       THEN /\ entry' = [entry EXCEPT !.initial_bulk_update_performed = TRUE]
            /\ data' = refreshed
       ELSE /\ refreshed = data
            /\ UNCHANGED <<entry, data>>
    /\ LET replied == [pub EXCEPT !.reply = "ok", !.arrival = scenarios.kind,
                                  !.arrival_key = scenarios.key]
       IN  pub' = IF scenarios.kind = "absent"
                  THEN [replied EXCEPT !.pc = "done"]
                  ELSE EnterDispatcher(replied, entry, scenarios)
    /\ UNCHANGED <<now, sensor_directives, poll, wh, setup, api, ws, op, snap, laterVars>>

\* the loop body for the outcome at (i, j); the calls numbered in `raises` raise
DispatchOutcome(raises) ==
    /\ pub.pc = "dispatching"
    /\ LET o == pub.batch[pub.i].outcomes[pub.j]
           plan == OutcomePlan(o, pub.service)
           attempted == AttemptedCalls(plan.calls, raises)
           logged == [n \in 1..Len(attempted) |->
                         [i |-> pub.i, j |-> pub.j, call |-> attempted[n],
                          raised |-> n \in raises]]
           at == Settle(pub.batch, pub.i, pub.j + 1)
       IN  /\ raises \subseteq 1..Len(plan.calls)
           /\ pub' = IF plan.escapes
                     THEN [pub EXCEPT !.pc = "done", !.ended = "aborted"]
                     ELSE [pub EXCEPT !.pc = IF at.ended = "none" THEN "dispatching"
                                             ELSE "done",
                                      !.calls = @ \o logged,
                                      !.service = plan.service,
                                      !.i = at.i, !.j = at.j, !.ended = at.ended]
    /\ UNCHANGED <<now, data, sensor_directives, poll, entry, wh, setup, api, ws, op, snap, laterVars>>

\* json.loads(msg.payload) of a message on the scenario-trigger topic: lists of
\* scenarios, the empty list, and a payload that is no JSON
MqttPayloads ==
    {JsonList(b) : b \in Batches} \cup {JsonList(<<>>), [kind |-> "text", items |-> <<>>]}

\* _async_handle_mqtt_scenario_trigger, lines 223-240: a non-empty list goes to
\* _handle_triggered_scenarios as it is; whatever is raised is logged
MqttScenarioTrigger(payload) ==
    /\ pub.pc = "idle"
    /\ LET got == [IdlePublisher EXCEPT !.pc = "done", !.kind = "mqtt",
                                        !.arrival = payload.kind]
       IN  pub' = IF payload.kind = "list" /\ payload.items # <<>>
                  THEN EnterDispatcher(got, entry,
                                       [kind |-> "list", key |-> Null, plain |-> payload])
                  ELSE got
    /\ UNCHANGED <<now, data, sensor_directives, poll, entry, wh, setup, api, ws, op, snap, laterVars>>

\* the publishing method has returned
PublishReturns ==
    /\ pub.pc = "done"
    /\ pub' = IdlePublisher
    /\ UNCHANGED <<now, data, sensor_directives, poll, entry, wh, setup, api, ws, op, snap, laterVars>>

PublishInit ==
    /\ now = 0
    /\ data = NoData
    /\ sensor_directives = <<>>
    /\ poll = IdlePoll
    /\ entry \in {NewEntry(plan) : plan \in Plans}
    /\ wh = IdleWebhook
    /\ setup = NotLoaded
    /\ api = NothingSent
    /\ RestIdle

PublishNext ==
    \/ \E entity_id \in EventEntities, to_state \in EntityStates \cup {NoState} :
          StateChange(entity_id, to_state)
    \/ \E light \in EntityStates \cup {NoState}, sun \in SunStates \cup {NoState} :
          StartPublisher(<<light, sun>>)
    \/ \E status \in BulkStatuses : PublishStatus(status)
    \/ PublishRaises
    \/ \E scenarios \in TriggeredScenarios,
          refreshed \in {data} \cup {Data(list) : list \in ServerLists} :
          PublishBody(scenarios, refreshed)
    \/ \E raises \in SUBSET {1, 2} : DispatchOutcome(raises)
    \/ \E payload \in MqttPayloads : MqttScenarioTrigger(payload)
    \/ PublishReturns

SpecPublish == PublishInit /\ [][PublishNext]_vars

(***************************************************************************)
(* Properties of the state publisher.                                      *)
(***************************************************************************)
\* the allow-list as the claim gives it
PublishedKeys ==
    {"brightness", "color_temp", "rgb_color", "xy_color", "current_position",
     "current_temperature", "temperature", "hvac_mode", "preset_mode"}

\* the entity list a request body carries (inside the ciphertext)
SentEntities == pub.sent.data.plain.items

\* C11: in every request body built by _async_update_remote_state or
\* _send_bulk_update, each entity with a state is listed once, with its state
\* and with exactly its attributes restricted to the allow-list: no other key,
\* and every allow-listed key it has, with its value.
C11_PublishedAttributesAreAllowListed ==
    pub.sent.kind # "none" =>
        LET src == PresentEntities(pub.source)
        IN  /\ Len(SentEntities) = Len(src)
            /\ \A n \in 1..Len(src) :
                  /\ SentEntities[n].entity_id = src[n].entity_id
                  /\ SentEntities[n].state = src[n].state.state
                  /\ DOMAIN SentEntities[n].attributes
                        = (DOMAIN src[n].state.attributes) \cap PublishedKeys
                  /\ \A k \in DOMAIN SentEntities[n].attributes :
                        SentEntities[n].attributes[k] = src[n].state.attributes[k]

\* C11 witness: a state with two allow-listed attributes and one that is not
\* was published with the two
C11_Witness ==
    /\ pub.pc = "posting"
    /\ pub.source[1].state.attributes
          = ("brightness" :> 2) @@ ("temperature" :> 1) @@ ("friendly_name" :> 1)
    /\ SentEntities[1].attributes = ("brightness" :> 2) @@ ("temperature" :> 1)

\* C12: an event for a tracked entity (a configured one or sun.sun) with a
\* non-null new state issues exactly one POST, whose body lists that one
\* entity; an event for an untracked entity or with a null new state issues
\* none; and no POST is issued later for the same event, whatever the answer.
C12_OnePostPerTrackedChange ==
    /\ [](pub.kind = "event" =>
            /\ pub.posts <= 1
            /\ pub.source = <<>> => pub.posts = 1
            /\ pub.source # <<>> =>
                  IF pub.source[1].entity_id \in {"light.kitchen", "sun.sun"}
                        /\ pub.source[1].state # NoState
                  THEN /\ pub.posts = 1
                       /\ pub.pc = "posting" =>
                             /\ pub.sent.kind = "single"
                             /\ Len(SentEntities) = 1
                             /\ SentEntities[1].entity_id = pub.source[1].entity_id
                  ELSE /\ pub.posts = 0
                       /\ pub.pc = "done"
                       /\ pub.sent = NoPayload)
    /\ [][pub'.posts > pub.posts => pub.pc = "idle"]_vars

\* C12 witness: the POST for a change of sun.sun failed and the handler is done
C12_Witness ==
    /\ pub.kind = "event"
    /\ pub.pc = "done"
    /\ pub.reply = "failed"
    /\ pub.posts = 1
    /\ pub.source[1].entity_id = "sun.sun"

(***************************************************************************)
(* Properties of the scenario dispatcher.                                  *)
(***************************************************************************)
\* the positions (scenario, outcome) of the batch being dispatched
Positions ==
    {<<i, j>> : i \in 1..2, j \in 1..2} \cap
        {q \in (1..Len(pub.batch)) \X (1..2) :
            pub.batch[q[1]].has_outcomes /\ q[2] <= Len(pub.batch[q[1]].outcomes)}

\* the outcome at a position
OutcomeAt(q) == pub.batch[q[1]].outcomes[q[2]]

\* the loop body has run for the outcome at q
Handled(q) == q[1] < pub.i \/ (q[1] = pub.i /\ q[2] < pub.j)

\* the service calls awaited for the outcome at q, in order
CallsFor(q) == SelectSeq(pub.calls, LAMBDA c : c.i = q[1] /\ c.j = q[2])

\* a light outcome the claim speaks of: entity and state given, attributes a
\* mapping or left out
IsLightOutcome(o) ==
    /\ o.kind = "dict"
    /\ o.entity_id = "light.kitchen"
    /\ o.state # Null
    /\ o.attributes.kind # "null"

IsClimateOutcome(o) ==
    /\ o.kind = "dict"
    /\ o.entity_id = "climate.hall"
    /\ o.state \in {"heat", "cool", "auto", "off"}
    /\ o.attributes.kind = "dict"
    /\ "temperature" \in DOMAIN o.attributes.map

CurrentOutcome == OutcomeAt(<<pub.i, pub.j>>)

\* C15: the loop body, run for an outcome that is an object with entity_id
\* missing or state null, makes no service call and goes on to the next
\* outcome of the batch (of the same scenario, else of the next one).
C15_InvalidOutcomeIsSkipped ==
    [][(/\ pub.pc = "dispatching"
        /\ CurrentOutcome.kind = "dict"
        /\ CurrentOutcome.entity_id = Null \/ CurrentOutcome.state = Null
        /\ pub' # pub) =>
           /\ pub'.calls = pub.calls
           /\ pub'.ended # "aborted"
           /\ IF pub.j < Len(pub.batch[pub.i].outcomes)
              THEN pub'.pc = "dispatching" /\ pub'.i = pub.i /\ pub'.j = pub.j + 1
              ELSE IF pub.i < Len(pub.batch)
              THEN pub'.pc = "dispatching" /\ pub'.i = pub.i + 1 /\ pub'.j = 1
              ELSE pub'.pc = "done" /\ pub'.ended = "done"]_vars

\* C15 witness: the first outcome had a null state and no call, the second was
\* dispatched
C15_Witness ==
    /\ pub.pc = "done"
    /\ pub.ended = "done"
    /\ Len(pub.batch) = 1
    /\ Len(pub.batch[1].outcomes) = 2
    /\ OutcomeAt(<<1, 1>>).kind = "dict"
    /\ OutcomeAt(<<1, 1>>).entity_id # Null
    /\ OutcomeAt(<<1, 1>>).state = Null
    /\ Len(pub.calls) = 1
    /\ pub.calls[1].j = 2

\* C16 as stated: whatever fails while one outcome or one scenario is handled,
\* the loop body runs for every outcome of the batch.
C16_Original ==
    (pub.pc = "done" /\ pub.entered /\ pub.ended # "raised") =>
        /\ pub.ended = "done"
        /\ \A q \in Positions : Handled(q)

\* C17 as stated: triggered_scenarios of a 200 response reach the dispatcher's
\* loop both as a plain list on the tier without encryption and as a ciphertext
\* under the entry's key on the tier with encryption.
C17_Original ==
    /\ (pub.arrival = "list" /\ entry.subscription_type = "basic") =>
          pub.entered /\ pub.ended # "raised"
    /\ (/\ pub.arrival = "cipher"
        /\ pub.arrival_key = entry.encryption_key
        /\ entry.subscription_type = "pro") =>
          pub.entered /\ pub.ended # "raised"

(***************************************************************************)
(* The coordinator's API operations and the WebSocket commands that call   *)
(* them.  One handler runs at a time; the code between two awaited HTTP    *)
(* exchanges is one step.                                                  *)
(***************************************************************************)
\* the coordinator methods that issue an HTTP request: async_get_directives,
\* async_get_directive, async_create_directive, async_update_directive,
\* async_delete_directive, async_download_directive, async_get_directive_stage,
\* async_get_conversation, async_send_conversation_message
Operations ==
    {"list", "get", "create", "update", "delete", "download", "stage",
     "conversation_get", "conversation_post"}

\* d.get(k, default)
GetKey(d, k, default) == IF k \in DOMAIN d THEN d[k] ELSE default

\* d[k] = v
SetKey(d, k, v) == [x \in (DOMAIN d) \cup {k} |-> IF x = k THEN v ELSE d[x]]

\* a conversation
Messages == <<[role |-> "user", content |-> "hi"]>>

\* the JSON bodies the remote API answers with in the model, by operation
ApiBodies(name, id) ==
    CASE name = "list" ->
            {JsonBody("list", "directives" :> list) : list \in ServerLists}
                \cup {JsonBody("{}", EmptyDict)}
      [] name = "get" ->
            {JsonBody("directive", "directive" :> dir) : dir \in ServerDirective(id)}
                \cup {JsonBody("{}", EmptyDict)}
      [] name \in {"create", "download"} ->
            {JsonBody("id", "directive_id" :> "d1"), JsonBody("{}", EmptyDict)}
      [] name = "update" -> {JsonBody("id", "directive_id" :> "d1")}
      [] name = "delete" -> {JsonBody("{}", EmptyDict)}
      [] name = "stage" ->
            {JsonBody("stage", info) :
                info \in {p \in StagePayloads : p.stage \in {"pending", "completed"}}}
      [] name = "conversation_get" ->
            {JsonBody("messages", ("success" :> TRUE) @@ ("messages" :> Messages)),
             JsonBody("none", ("success" :> TRUE) @@ ("messages" :> <<>>))}
      [] name = "conversation_post" ->
            {JsonBody("ok", "success" :> TRUE),
             JsonBody("pull", ("success" :> TRUE) @@ ("pull" :> TRUE))}
      [] OTHER -> {}

\* the bodies of the responses: one of the JSON bodies, or text that is no JSON;
\* the API knows no directive "None"
ResponseBodies(name, id) ==
    IF name \in {"stage", "get"} /\ id = Null THEN {TextBody("boom")}
    ELSE ApiBodies(name, id) \cup {TextBody("boom")}

\* the responses in the model: a 200 or a 201 with any of the bodies, a 500 with
\* a text
Responses(name, id) ==
    [status : {200, 201}, body : ResponseBodies(name, id)]
        \cup [status : {500}, body : {TextBody("boom")}]

\* if response.status == 200
IsSuccess(status) == status = 200

\* the operations whose error message gets `await response.text()`
CarriesBody(name) == name \in {"get", "create", "delete", "download", "stage"}

\* raise Exception(f"API returned status {response.status}...")
StatusError(name, status, body) ==
    [operation |-> name, status |-> status,
     text |-> IF CarriesBody(name) THEN Some(body.text) ELSE None]

\* an exception without an HTTP status in it: a network error, a body that is
\* no JSON, "Directive ... not found"
OtherError(name) == [operation |-> name, status |-> 0, text |-> None]

Returned(kind, json) ==
    [outcome |-> "returned", result |-> [kind |-> kind, json |-> json],
     error |-> NoError]

Raised(error) == [outcome |-> "raised", result |-> NoResult, error |-> error]

\* how the operation ends on the response: what it returns or raises
Finished(name, status, body) ==
    IF ~IsSuccess(status) THEN Raised(StatusError(name, status, body))
    ELSE IF name = "delete" THEN Returned("true", EmptyDict)
    ELSE IF ~body.parses THEN Raised(OtherError(name))
    ELSE CASE name = "list" ->
                Returned("member", "directives" :> GetKey(body.json, "directives", <<>>))
           [] name = "get" ->
                IF "directive" \in DOMAIN body.json
                THEN Returned("member", Restrict(body.json, {"directive"}))
                ELSE Returned("none", EmptyDict)
           [] name = "download" -> Returned("true", EmptyDict)
           [] OTHER -> Returned("body", body.json)

\* the coroutines the operation hands to hass.async_create_task:
\* async_poll_directive(result.get("directive_id")) after create and download,
\* async_get_conversation and, if result.get("pull"), async_poll_directive
\* after a conversation post
Spawned(name, id, fin, body) ==
    IF fin.outcome # "returned" THEN {}
    ELSE CASE name \in {"create", "download"} ->
                {[task |-> "poll", id |-> GetKey(body.json, "directive_id", Null)]}
           [] name = "conversation_post" ->
                {[task |-> "conversation", id |-> id]} \cup
                    (IF GetKey(body.json, "pull", FALSE)
                     THEN {[task |-> "poll", id |-> id]} ELSE {})
           [] OTHER -> {}

(***************************************************************************)
(* The directive collection and its snapshots.                             *)
(***************************************************************************)
\* mutant: the entry is taken out of the collection
MarkDeleting_Removes(d, id) == Data(SelectOthers(d.directives, id))

\* updated_directive = directive.copy(); updated_directive["status"] = "deleting"
MarkDeleting(d, id) ==
    Data([i \in 1..Len(d.directives) |->
            IF d.directives[i].id = id
            THEN [d.directives[i] EXCEPT !.status = "deleting"]
            ELSE d.directives[i]])

\* updated_directive["status"] = "creating"; updated_directive["discovery"] = False
MarkActivating(d, id) ==
    Data([i \in 1..Len(d.directives) |->
            IF d.directives[i].id = id
            THEN [d.directives[i] EXCEPT !.status = "creating", !.discovery = FALSE]
            ELSE d.directives[i]])

\* updated_directive["messages"] = messages
StoreMessages(d, id, messages) ==
    Data([i \in 1..Len(d.directives) |->
            IF d.directives[i].id = id
            THEN SetKey(d.directives[i], "messages", messages)
            ELSE d.directives[i]])

\* mutant: the fetched directive starts without messages
CarriedMessages_None(d, id) == <<>>

\* next((d.get("messages", []) for d in directives if d.get("id") == id), [])
CarriedMessages(d, id) ==
    LET i == FirstIndex(d.directives, id)
    IN  IF i = 0 THEN <<>> ELSE GetKey(d.directives[i], "messages", <<>>)

\* mutant: the collection is replaced without notifying the listeners
Publish_Silent(old_now, new, by) == snap

\* self.async_set_updated_data(new_data), new_data being a new object: the
\* listeners are given `new`; `old_now` is what the replaced object holds by now
Publish(old_now, new, by) ==
    [cur |-> new, intact |-> (old_now = snap.cur), by |-> by]

\* the collection after an operation's response, as [data, snap, sensor]
Unchanged == [data |-> data, snap |-> snap, sensor |-> sensor_directives]

Replaced(new, by) ==
    [data |-> new, snap |-> Publish(data, new, by), sensor |-> sensor_directives]

\* lines 181-204 of async_get_directive
StoreFetched(id, directive) ==
    IF Populated(data)
    THEN Replaced(StoreDirective(data, id,
                                 SetKey(directive, "messages", CarriedMessages(data, id))),
                  "get")
    ELSE IF ws.has_sensor
    THEN [Unchanged EXCEPT !.sensor = SensorSetDirective(sensor_directives, id, directive)]
    ELSE Unchanged

\* await self.async_request_refresh(): the framework fetches the list and, if
\* that succeeds, replaces the data and notifies the listeners
Refreshed(refreshed) ==
    IF refreshed = None THEN Unchanged ELSE Replaced(Data(refreshed[1]), "refresh")

\* what the operation does to the collection before its HTTP request
BeforeRequest(name, id) ==
    IF ~Populated(data) THEN Unchanged
    ELSE CASE name = "delete" -> Replaced(MarkDeleting(data, id), "delete")
           [] name = "download" -> Replaced(MarkActivating(data, id), "download")
           [] OTHER -> Unchanged

\* what the operation does to the collection on its response
AfterResponse(name, id, caller, status, body, fin, refreshed) ==
    CASE name = "get" /\ fin.result.kind = "member" ->
            StoreFetched(id, fin.result.json["directive"])
      [] name = "conversation_get" /\ fin.outcome = "returned"
            /\ GetKey(body.json, "messages", <<>>) # <<>> /\ Populated(data) ->
            Replaced(StoreMessages(data, id, body.json["messages"]), "conversation")
      [] name = "update" \/ (name = "delete" /\ fin.outcome = "returned") ->
            Refreshed(refreshed)
      [] name = "stage" /\ caller = "poll" /\ fin.outcome = "returned"
            /\ ~IsTerminal(body.json["stage"]) /\ Populated(data) ->
            Replaced(MergeStage(data, id, body.json), "poll")
      [] OTHER -> Unchanged

\* the else block of the poll's while loop, lines 141-151: the entry is the
\* dict the published snapshot holds, so the replaced object changes with it
TimedOut(id) ==
    IF HasEntry(data, id)
    THEN [data |-> MarkTimedOut(data, id),
          snap |-> Publish(MarkTimedOut(data, id), MarkTimedOut(data, id), "timeout"),
          sensor |-> sensor_directives]
    ELSE Unchanged

(***************************************************************************)
(* The WebSocket command handlers.                                         *)
(***************************************************************************)
WsTypes ==
    {"get_directives", "create_directive", "update_directive", "delete_directive",
     "download_directive", "get_conversation", "send_conversation_message"}

RequestIds == {1, 2}

\* vol.Required("directive_id"): str
HasDirectiveId(type) == type \notin {"get_directives", "create_directive"}

\* the coordinator method a handler awaits first
OperationOf(type) ==
    CASE type = "get_directives" -> "list"
      [] type = "create_directive" -> "create"
      [] type = "update_directive" -> "update"
      [] type = "delete_directive" -> "delete"
      [] type = "download_directive" -> "download"
      [] type = "get_conversation" -> "conversation_get"
      [] type = "send_conversation_message" -> "conversation_post"

\* connection.send_result(msg["id"], ...) / connection.send_error(msg["id"], ...)
Reply(w, kind) == [w EXCEPT !.replies = Append(@, [id |-> w.id, kind |-> kind])]

\* if sensor: await sensor.async_set_state({...})
SetAttrs(w, attrs) == IF w.has_sensor THEN [w EXCEPT !.attrs = attrs] ELSE w

\* the except block of a handler
Failed(w) ==
    LET marked ==
            CASE w.type \in {"create_directive", "update_directive"} ->
                    SetAttrs(w, [w.attrs EXCEPT !.creating = FALSE, !.error = TRUE])
              [] w.type = "delete_directive" ->
                    SetAttrs(w, [w.attrs EXCEPT !.deleting = FALSE, !.error = TRUE])
              [] OTHER -> w
    IN  [Reply(marked, "error") EXCEPT !.pc = "done"]

\* if not directive_id, after send_result
MissingId(body) == GetKey(body.json, "directive_id", Null) = Null

\* the handler after the coordinator method it awaited ended as `fin`; `next`
\* is the coordinator method it awaits next
Continued(w, fin, body) ==
    IF fin.outcome = "raised" THEN [ws |-> Failed(w), next |-> "none"]
    ELSE CASE w.type = "create_directive" ->
                [ws |-> IF MissingId(body)
                        THEN Failed(Reply(w, "result"))
                        ELSE [Reply(w, "result") EXCEPT !.pc = "done"],
                 next |-> "none"]
           [] w.type = "update_directive" ->
                [ws |-> [Reply(SetAttrs(w, [w.attrs EXCEPT !.creating = FALSE]),
                               "result") EXCEPT !.pc = "done"],
                 next |-> "none"]
           [] w.type = "download_directive" /\ w.step = 1 ->
                [ws |-> [w EXCEPT !.step = 2], next |-> "list"]
           [] OTHER ->
                [ws |-> [Reply(w, "result") EXCEPT !.pc = "done"], next |-> "none"]

\* the operation is called: what it does before its request, and the request
InFlight(name, id, caller) ==
    [op EXCEPT !.pc = "in_flight", !.name = name, !.caller = caller,
               !.directive_id = id, !.status = 0, !.body = NoReply,
               !.outcome = "none", !.result = NoResult, !.error = NoError]

\* the operation ended as `fin` on a response of `status` and `body`
Ended(fin, status, body, spawned) ==
    [op EXCEPT !.pc = "done", !.status = status, !.body = body,
               !.outcome = fin.outcome, !.result = fin.result, !.error = fin.error,
               !.tasks = @ \cup spawned]

\* async_download_directive: if not updated_directive: raise Exception(...)
NotFound(name, id) == name = "download" /\ ~HasEntry(data, id)

\* the caller awaits its next operation
Chained(ended, name) ==
    [InFlight(name, op.directive_id, op.caller) EXCEPT !.tasks = ended.tasks]

\* a command arrives and its handler runs up to the first HTTP request
WsReceive(type, id, directive_id) ==
    /\ ws.pc = "idle"
    /\ op.pc = "idle"
    /\ LET name == OperationOf(type)
           w == [ws EXCEPT !.pc = "awaiting", !.type = type, !.id = id,
                           !.directive_id = directive_id, !.step = 1,
                           !.replies = <<>>]
           started == IF type = "update_directive"
                      THEN SetAttrs(w, [creating |-> TRUE, error |-> FALSE,
                                        deleting |-> FALSE])
                      ELSE w
           before == BeforeRequest(name, directive_id)
           called == InFlight(name, directive_id, "ws")
       IN  /\ data' = before.data
           /\ snap' = before.snap
           /\ IF NotFound(name, directive_id)
              THEN /\ op' = [called EXCEPT !.pc = "done", !.outcome = "raised",
                                           !.error = OtherError(name)]
                   /\ ws' = Failed(started)
              ELSE /\ op' = called
                   /\ ws' = started
    /\ UNCHANGED <<now, sensor_directives, poll, entry, wh, setup, api, pub, laterVars>>

\* the poll task after its stage fetch or its directive fetch ended
PollContinues(o, fin, body) ==
    IF o.name = "stage" /\ fin.outcome = "returned"
    THEN IF IsTerminal(body.json["stage"]) THEN "get" ELSE "sleep"
    ELSE "end"

\* the HTTP response of the operation in flight arrives: the operation returns
\* or raises and its caller runs up to its next HTTP request
ApiResponse(status, body, refreshed) ==
    /\ op.pc = "in_flight"
    /\ LET fin == Finished(op.name, status, body)
           after == AfterResponse(op.name, op.directive_id, op.caller, status, body,
                                  fin, refreshed)
           ended == Ended(fin, status, body,
                          Spawned(op.name, op.directive_id, fin, body))
       IN  /\ data' = after.data
           /\ snap' = after.snap
           /\ sensor_directives' = after.sensor
           /\ IF op.caller = "ws"
              THEN LET c == Continued(ws, fin, body)
                   IN  /\ ws' = c.ws
                       /\ op' = IF c.next = "none" THEN ended
                                ELSE Chained(ended, c.next)
              ELSE /\ ws' = ws
                   /\ op' = IF op.caller = "poll"
                            THEN CASE PollContinues(op, fin, body) = "get" ->
                                        Chained(ended, "get")
                                   [] PollContinues(op, fin, body) = "sleep" ->
                                        [ended EXCEPT !.pc = "sleeping"]
                                   [] OTHER -> ended
                            ELSE ended
    /\ UNCHANGED <<now, poll, entry, wh, setup, api, pub, laterVars>>

\* mutant: an exception in a background task is reported on the connection
ApiRaises_FailsCommand ==
    /\ op.pc = "in_flight"
    /\ LET fin == Raised(OtherError(op.name))
       IN  /\ op' = Ended(fin, 0, NoReply, {})
           /\ ws' = Continued(ws, fin, NoReply).ws
    /\ UNCHANGED <<now, data, sensor_directives, poll, entry, wh, setup, api, pub, snap, laterVars>>

\* the HTTP request of the operation in flight raises (no response)
ApiRaises ==
    /\ op.pc = "in_flight"
    /\ LET fin == Raised(OtherError(op.name))
       IN  /\ op' = Ended(fin, 0, NoReply, {})
           /\ ws' = IF op.caller = "ws" THEN Continued(ws, fin, NoReply).ws ELSE ws
    /\ UNCHANGED <<now, data, sensor_directives, poll, entry, wh, setup, api, pub, snap, laterVars>>

\* a coroutine handed to hass.async_create_task starts and runs up to its
\* first HTTP request
TaskStart(t) ==
    /\ ws.pc = "idle"
    /\ op.pc = "idle"
    /\ t \in op.tasks
    /\ op' = [InFlight(IF t.task = "poll" THEN "stage" ELSE "conversation_get",
                       t.id, IF t.task = "poll" THEN "poll" ELSE "task")
                EXCEPT !.tasks = @ \ {t}]
    /\ UNCHANGED <<now, data, sensor_directives, poll, entry, wh, setup, api, pub, ws,
                   snap, laterVars>>

\* the poll's asyncio.sleep(10) is over: the loop condition holds and the next
\* stage fetch is issued, or it does not (expired) and the else block runs
PollWakes(expired) ==
    /\ op.pc = "sleeping"
    /\ IF expired
       THEN /\ op' = [op EXCEPT !.pc = "done", !.outcome = "returned",
                                !.result = NoResult]
            /\ data' = TimedOut(op.directive_id).data
            /\ snap' = TimedOut(op.directive_id).snap
       ELSE /\ op' = InFlight("stage", op.directive_id, "poll")
            /\ UNCHANGED <<data, snap>>
    /\ UNCHANGED <<now, sensor_directives, poll, entry, wh, setup, api, pub, ws, laterVars>>

\* the handler or the task is over
HandlerReturns ==
    /\ op.pc = "done"
    /\ ws.pc \in {"idle", "done"}
    /\ op' = [IdleOperation EXCEPT !.tasks = op.tasks]
    /\ ws' = [IdleSocket EXCEPT !.has_sensor = ws.has_sensor, !.attrs = ws.attrs,
                                !.id = ws.id, !.replies = ws.replies]
    /\ UNCHANGED <<now, data, sensor_directives, poll, entry, wh, setup, api, pub, snap, laterVars>>

PanelInit ==
    /\ now = 0
    /\ data \in {NoData} \cup {Data(list) : list \in ServerLists}
    /\ sensor_directives = <<>>
    /\ poll = IdlePoll
    /\ entry = NewEntry("pro")
    /\ wh = IdleWebhook
    /\ setup = NotLoaded
    /\ api = NothingSent
    /\ pub = IdlePublisher
    /\ ws \in {[IdleSocket EXCEPT !.has_sensor = b] : b \in BOOLEAN}
    /\ op = IdleOperation
    /\ snap = [NoSnapshots EXCEPT !.cur = data]
    /\ polls = NoPolls
    /\ sess = NoSessions
    /\ flow = NoFlow

PanelNext ==
    \/ \E type \in WsTypes, id \in RequestIds :
          WsReceive(type, id, IF HasDirectiveId(type) THEN "d1" ELSE Null)
    \/ \E r \in Responses(op.name, op.directive_id),
          refreshed \in {None} \cup {Some(list) : list \in ServerLists} :
          ApiResponse(r.status, r.body, refreshed)
    \/ ApiRaises
    \/ \E t \in op.tasks : TaskStart(t)
    \/ \E expired \in BOOLEAN : PollWakes(expired)
    \/ HandlerReturns

SpecPanel == PanelInit /\ [][PanelNext]_vars

(***************************************************************************)
(* Properties of the WebSocket commands, the API operations and the        *)
(* snapshots.                                                              *)
(***************************************************************************)
\* C18 as stated: a command's handler sends exactly one reply for the id of its
\* message, a result or an error and never both.
C18_Original ==
    /\ Len(ws.replies) <= 1
    /\ \A n \in 1..Len(ws.replies) : ws.replies[n].id = ws.id
    /\ ws.pc = "done" => Len(ws.replies) = 1

\* the 2xx statuses
IsTwoHundreds(status) == status >= 200 /\ status <= 299

\* C19 as stated: an operation that got a response raises when the status is
\* not 2xx, the error carrying the status and the response body, and returns
\* when the status is 2xx and the body is JSON.
C19_Original ==
    (op.pc = "done" /\ op.status # 0) =>
        IF IsTwoHundreds(op.status)
        THEN op.body.parses => op.outcome = "returned"
        ELSE /\ op.outcome = "raised"
             /\ op.error.status = op.status
             /\ op.error.text = Some(op.body.text)

\* C20 (as amended): the collection is never changed without the new contents
\* being handed to the listeners in the same step, as a new object; the object
\* that was replaced keeps the contents it was published with unless the
\* publication is the one of the poll's timeout branch, which first writes the
\* error fields into the entry that the replaced snapshot holds too.
C20_ChangesArePublished ==
    /\ data = snap.cur
    /\ ~snap.intact => snap.by = "timeout"
    /\ snap.by = "timeout" =>
          \E i \in 1..Len(data.directives) :
              /\ data.directives[i].status = "error"
              /\ data.directives[i].creation_message = TimeoutMessage

\* C20 witness: the timeout branch has published, and the snapshot it replaced
\* no longer holds what it was published with
C20_Witness ==
    /\ snap.by = "timeout"
    /\ ~snap.intact
    /\ op.pc = "done"
    /\ op.caller = "poll"
    /\ data = snap.cur

\* C20 as stated: no change without publication, and a published snapshot is
\* never modified in place.
C20_Original ==
    /\ data = snap.cur
    /\ snap.intact

(***************************************************************************)
(* Further properties of the poll loop.                                    *)
(***************************************************************************)
\* the step in which a poll merges a non-terminal stage into a populated
\* collection
MergeStep == poll.pc = "await_stage" /\ poll'.pc = "sleeping" /\ Populated(data)

\* the stage payload with the given stage
PayloadOf(stage) == CHOOSE p \in StagePayloads : p.stage = stage

\* C21: a non-terminal step of async_poll_directive(id) on a populated
\* collection sets creation_stage, creation_message and status of the entry
\* with that id from the stage payload and keeps its other fields; without such
\* an entry it appends exactly one, with status "creating" and discovery false;
\* every other entry stays what and where it was.
C21_MergeTouchesOnlyItsEntry ==
    [][MergeStep =>
        LET id == poll.id
            info == PayloadOf(poll'.stage)
            old == data.directives
            new == data'.directives
        IN  /\ data'.populated
            /\ IF \E i \in 1..Len(old) : old[i].id = id
               THEN /\ Len(new) = Len(old)
                    /\ \A i \in 1..Len(old) :
                          IF old[i].id = id
                          THEN /\ new[i].id = id
                               /\ new[i].creation_stage = info.stage
                               /\ new[i].creation_message = info.stage_message
                               /\ new[i].status = info.status
                               /\ new[i].discovery = old[i].discovery
                          ELSE new[i] = old[i]
               ELSE /\ Len(new) = Len(old) + 1
                    /\ SubSeq(new, 1, Len(old)) = old
                    /\ new[Len(new)].id = id
                    /\ new[Len(new)].status = "creating"
                    /\ new[Len(new)].discovery = FALSE]_vars

\* C21 witness: a poll has merged a stage into its entry, which kept its
\* discovery flag, next to the entry of another directive
C21_Witness ==
    /\ poll.pc = "sleeping"
    /\ Len(data.directives) = 2
    /\ \E i \in 1..2 :
          /\ data.directives[i].id = poll.id
          /\ data.directives[i].creation_stage = poll.stage
          /\ data.directives[i].discovery
          /\ data.directives[3 - i].id # poll.id
          /\ data.directives[3 - i].creation_stage = "completed"

\* the step in which a stage fetch of the poll raises
StageErrorStep == poll.exit # "stage_error" /\ poll'.exit = "stage_error"

\* C23: when a stage fetch raises, async_poll_directive raises in that step,
\* leaving the collection and the sensor's list as they were and issuing no
\* fetch; once it has raised it does nothing more (no retry, no fetch, no sleep).
C23_StageErrorEndsThePoll ==
    /\ [][StageErrorStep =>
            /\ poll.pc = "await_stage"
            /\ poll'.pc = "raised"
            /\ data' = data
            /\ sensor_directives' = sensor_directives
            /\ poll'.stage_fetches = poll.stage_fetches
            /\ poll'.directive_fetches = poll.directive_fetches
            /\ poll'.sleeps = poll.sleeps]_vars
    /\ [][poll.pc = "raised" => poll' = poll]_vars

\* C23 witness: the second stage fetch of a poll raised, after a merge
C23_Witness ==
    /\ poll.exit = "stage_error"
    /\ poll.pc = "raised"
    /\ poll.stage_fetches = 2
    /\ poll.sleeps = 1
    /\ poll.directive_fetches = 0
    /\ HasEntry(data, poll.id)

(***************************************************************************)
(* Further properties of the scenario dispatcher.                          *)
(***************************************************************************)
\* an alarm panel outcome whose state is none of the four the branch knows
IsUnknownAlarmOutcome(o) ==
    /\ o.kind = "dict"
    /\ o.entity_id = "alarm_control_panel.home"
    /\ o.state # Null
    /\ o.state \notin {"armed_home", "armed_away", "armed_night", "disarmed"}

\* C24 as stated: for an alarm_control_panel outcome with a state that is none
\* of armed_home, armed_away, armed_night, disarmed no service call is issued,
\* whatever was processed before it in the batch.
C24_Original ==
    \A q \in Positions :
        (Handled(q) /\ IsUnknownAlarmOutcome(OutcomeAt(q))) => CallsFor(q) = <<>>

\* a cover outcome: entity and state given, attributes a mapping or left out
IsCoverOutcome(o) ==
    /\ o.kind = "dict"
    /\ o.entity_id = "cover.door"
    /\ o.state # Null
    /\ o.attributes.kind # "null"

\* the service the cover branch assigns by state
CoverServiceOf(state) ==
    CASE state = "open" -> "open_cover"
      [] state = "closed" -> "close_cover"
      [] state = "stop" -> "stop_cover"
      [] OTHER -> Null

\* C25 (as amended): a cover outcome with a position attribute gets exactly one
\* call, cover.set_cover_position with entity_id and that position, whatever its
\* state; without a position, state open, closed or stop gets exactly one call,
\* open_cover, close_cover or stop_cover with entity_id only; without a position
\* and with another state the branch assigns no service: at most one call is
\* made, with entity_id only, and none when the outcome is the first of the
\* batch.
C25_CoverOutcomeCall ==
    \A q \in Positions :
        (Handled(q) /\ IsCoverOutcome(OutcomeAt(q))) =>
            LET o == OutcomeAt(q)
                cs == CallsFor(q)
                given == o.attributes.map
            IN  IF "position" \in DOMAIN given
                THEN /\ Len(cs) = 1
                     /\ cs[1].call.domain = "cover"
                     /\ cs[1].call.service = "set_cover_position"
                     /\ cs[1].call.data = ("entity_id" :> o.entity_id)
                                            @@ ("position" :> given["position"])
                ELSE IF CoverServiceOf(o.state) # Null
                THEN /\ Len(cs) = 1
                     /\ cs[1].call.domain = "cover"
                     /\ cs[1].call.service = CoverServiceOf(o.state)
                     /\ cs[1].call.data = ("entity_id" :> o.entity_id)
                ELSE /\ Len(cs) <= 1
                     /\ q = <<1, 1>> => cs = <<>>
                     /\ \A n \in 1..Len(cs) :
                           /\ cs[n].call.domain = "cover"
                           /\ cs[n].call.data = ("entity_id" :> o.entity_id)

\* C25 witness: a cover outcome with state open and a position was dispatched as
\* one set_cover_position call
C25_Witness ==
    /\ pub.pc = "done"
    /\ pub.ended = "done"
    /\ Len(pub.batch) = 1
    /\ Len(pub.batch[1].outcomes) = 1
    /\ IsCoverOutcome(OutcomeAt(<<1, 1>>))
    /\ OutcomeAt(<<1, 1>>).state = "open"
    /\ Len(pub.calls) = 1
    /\ pub.calls[1].call.service = "set_cover_position"
    /\ pub.calls[1].call.data["position"] = 50

\* C25 as stated: exactly one service call per cover outcome, set_cover_position
\* when a position is present and the service of the state otherwise.
C25_Original ==
    \A q \in Positions :
        (Handled(q) /\ IsCoverOutcome(OutcomeAt(q))) =>
            /\ Len(CallsFor(q)) = 1
            /\ CallsFor(q)[1].call.service =
                  IF "position" \in DOMAIN OutcomeAt(q).attributes.map
                  THEN "set_cover_position"
                  ELSE CoverServiceOf(OutcomeAt(q).state)

\* C26 as stated: for a climate outcome with a temperature, set_hvac_mode is
\* issued first and set_temperature second, and each is issued whether or not the
\* other fails.
C26_Original ==
    \A q \in Positions :
        (Handled(q) /\ IsClimateOutcome(OutcomeAt(q))) =>
            /\ Len(CallsFor(q)) = 2
            /\ CallsFor(q)[1].call.service = "set_hvac_mode"
            /\ CallsFor(q)[2].call.service = "set_temperature"

(***************************************************************************)
(* Further properties of the one-time flags.                               *)
(***************************************************************************)
\* the step in which the first refresh of a setup returns
PastFirstRefresh == setup.pc = "first_refresh" /\ setup'.pc # "not_loaded"

\* the step in which a setup reaches async_start
ReachesStart ==
    /\ setup.pc \in {"first_refresh", "registering"}
    /\ setup'.pc \in {"bulk_posting", "loaded"}

\* C27 (as amended): every async_setup_entry whose first coordinator refresh
\* succeeds, run while webhook_registered_to_api is false (with secret and API
\* key present), sends the registration POST again, and every one that reaches
\* async_start while initial_bulk_update_performed is false, with some tracked
\* entity having a state and an encryption key set, sends the bulk POST again; a
\* setup whose first refresh fails attempts neither.  While a flag is true no
\* setup sends its request, and a flag never goes back from true to false, so it
\* changes at most once.
C27_FlagFalseMeansRetry ==
    /\ [][(PastFirstRefresh /\ ~entry.webhook_registered_to_api
             /\ entry.webhook_secret # Null /\ entry.api_key # Null)
            => api'.register_posts = api.register_posts + 1]_vars
    /\ [][(ReachesStart /\ ~entry'.initial_bulk_update_performed
             /\ setup'.present # {} /\ entry.encryption_key # Null)
            => api'.bulk_posts = api.bulk_posts + 1 /\ setup'.pc = "bulk_posting"]_vars
    /\ [][(setup.pc = "first_refresh" /\ setup'.pc = "not_loaded") => api' = api]_vars
    /\ [][entry.webhook_registered_to_api => api'.register_posts = api.register_posts]_vars
    /\ [][entry.initial_bulk_update_performed => api'.bulk_posts = api.bulk_posts]_vars
    /\ [][entry.webhook_registered_to_api => entry'.webhook_registered_to_api]_vars
    /\ [][entry.initial_bulk_update_performed
            => entry'.initial_bulk_update_performed]_vars

\* C27 witness: the third setup runs with both flags set, after a first setup
\* whose two requests failed and a second whose two requests succeeded
C27_Witness ==
    /\ setup.setups = 3
    /\ setup.pc = "loaded"
    /\ setup.present # {}
    /\ entry.webhook_registered_to_api
    /\ entry.initial_bulk_update_performed
    /\ api.register_posts = 2 /\ api.register_ok = 1
    /\ api.bulk_posts = 2 /\ api.bulk_ok = 1

\* C27 as stated: while a flag is false every async_setup_entry attempts the
\* remote call again: a setup begun with webhook_registered_to_api false does not
\* end without a registration POST.
C27_Original ==
    [][(setup.pc = "first_refresh" /\ ~entry.webhook_registered_to_api
          /\ entry.webhook_secret # Null /\ entry.api_key # Null)
         => api'.register_posts = api.register_posts + 1]_vars

(***************************************************************************)
(* coordinator.py and __init__.py: several async_poll_directive tasks on   *)
(* one event loop, the coordinator refresh, the state-change task, and the *)
(* HTTP sessions of the coordinator and the publisher across               *)
(* async_setup_entry and async_unload_entry.  A step is the code between   *)
(* two awaits of one task.                                                  *)
(***************************************************************************)
taskFrame == <<now, poll, entry, wh, setup, api, pub, ws, op, snap, flow>>

\* if not self.session: self.session = aiohttp.ClientSession()
EnsureSession(s) ==
    IF s.coordinator = "none"
    THEN [s EXCEPT !.coordinator = "open", !.opened = @ + 1]
    ELSE s

\* DirektiveCoordinator.async_close
CloseCoordinator(s) ==
    IF s.coordinator = "open"
    THEN [s EXCEPT !.coordinator = "none", !.closed = @ + 1]
    ELSE s

\* Direktive.async_stop: the publisher's session is closed and dropped
StopPublisher(s) == [s EXCEPT !.publisher = "none"]

\* async_setup_entry: the first refresh of the new coordinator delivers `list`
\* through async_get_directives, which opens the coordinator's session; then
\* Direktive.async_start opens the publisher's
TasksSetup(list) ==
    /\ ~sess.loaded /\ sess.unloads = 0
    /\ data' = Data(list)
    /\ sess' = [EnsureSession(sess) EXCEPT !.loaded = TRUE, !.publisher = "open"]
    /\ UNCHANGED <<sensor_directives, polls, taskFrame>>

\* hass.async_create_task(self.async_poll_directive(id)) from a command: the
\* task runs to its first stage fetch
TaskPollStart(id) ==
    /\ sess.loaded
    /\ polls[id].pc = "idle"
    /\ polls' = [polls EXCEPT ![id] = [@ EXCEPT !.pc = "await_stage", !.rounds = 1]]
    /\ sess' = EnsureSession(sess)
    /\ UNCHANGED <<data, sensor_directives, taskFrame>>

\* the stage fetch of the poll for id answers 200 with `info`: lines 87-137,
\* up to the sleep or to the request of async_get_directive
TaskStageResponse(id, info) ==
    /\ polls[id].pc = "await_stage"
    /\ IF IsTerminal(info.stage)
       THEN /\ polls' = [polls EXCEPT ![id] = [@ EXCEPT !.pc = "await_directive"]]
            /\ sess' = EnsureSession(sess)
            /\ data' = data
       ELSE /\ polls' = [polls EXCEPT ![id] =
                           [@ EXCEPT !.pc = "sleeping",
                                     !.wrote = IF Populated(data) THEN info.stage ELSE @]]
            /\ sess' = sess
            /\ data' = MergeStage(data, id, info)
    /\ UNCHANGED <<sensor_directives, taskFrame>>

\* the stage fetch raises (also when the session was closed under it)
TaskStageError(id) ==
    /\ polls[id].pc = "await_stage"
    /\ polls' = [polls EXCEPT ![id] = [@ EXCEPT !.pc = "raised"]]
    /\ UNCHANGED <<data, sensor_directives, sess, taskFrame>>

\* asyncio.sleep(10) of the poll for id is over; `expired` tells whether the
\* 380 seconds have passed: the else block, or the next stage fetch
TaskSleepDone(id, expired) ==
    /\ polls[id].pc = "sleeping"
    /\ expired \/ polls[id].rounds < MaxRounds
    /\ IF expired
       THEN /\ polls' = [polls EXCEPT ![id] =
                           [@ EXCEPT !.pc = "returned",
                                     !.wrote = IF HasEntry(data, id) THEN "failed" ELSE @]]
            /\ data' = MarkTimedOut(data, id)
            /\ sess' = sess
       ELSE /\ polls' = [polls EXCEPT ![id] =
                           [@ EXCEPT !.pc = "await_stage", !.rounds = @ + 1]]
            /\ data' = data
            /\ sess' = EnsureSession(sess)
    /\ UNCHANGED <<sensor_directives, taskFrame>>

\* async_get_directive of the poll for id answers 200 with a directive
TaskDirectiveResponse(id, directive) ==
    /\ polls[id].pc = "await_directive"
    /\ IF Populated(data)
       THEN /\ data' = StoreDirective(data, id, directive)
            /\ polls' = [polls EXCEPT ![id] =
                           [@ EXCEPT !.pc = "returned",
                                     !.wrote = directive.creation_stage]]
            /\ UNCHANGED sensor_directives
       ELSE /\ sensor_directives' = SensorSetDirective(sensor_directives, id, directive)
            /\ polls' = [polls EXCEPT ![id] = [@ EXCEPT !.pc = "returned"]]
            /\ UNCHANGED data
    /\ UNCHANGED <<sess, taskFrame>>

\* async_get_directive raises
TaskDirectiveError(id) ==
    /\ polls[id].pc = "await_directive"
    /\ polls' = [polls EXCEPT ![id] = [@ EXCEPT !.pc = "raised"]]
    /\ UNCHANGED <<data, sensor_directives, sess, taskFrame>>

\* a coordinator refresh (_async_update_data) delivers `list`: the collection
\* is replaced and with it whatever the polls had merged
TasksRefresh(list) ==
    /\ sess.loaded
    /\ Data(list) # data
    /\ data' = Data(list)
    /\ polls' = [id \in DirectiveIds |-> [polls[id] EXCEPT !.wrote = Null]]
    /\ sess' = EnsureSession(sess)
    /\ UNCHANGED <<sensor_directives, taskFrame>>

\* _handle_state_change: the task _async_update_remote_state is created and
\* posts on the publisher's session
TaskStateChange ==
    /\ sess.loaded
    /\ sess.handler = "idle"
    /\ sess' = [sess EXCEPT !.handler = "posting"]
    /\ UNCHANGED <<data, sensor_directives, polls, taskFrame>>

\* the POST of _async_update_remote_state returns or raises; the task ends
\* without touching self.session
TaskStateChangeDone ==
    /\ sess.handler = "posting"
    /\ sess' = [sess EXCEPT !.handler = "idle"]
    /\ UNCHANGED <<data, sensor_directives, polls, taskFrame>>

\* async_unload_entry: coordinator.async_close(), direktive.async_stop(),
\* hass.data[DOMAIN].pop(entry_id); the tasks created with
\* hass.async_create_task go on
TasksUnload ==
    /\ sess.loaded
    /\ sess' = [StopPublisher(CloseCoordinator(sess)) EXCEPT
                  !.loaded = FALSE, !.unloads = @ + 1]
    /\ UNCHANGED <<data, sensor_directives, polls, taskFrame>>

TasksInit ==
    /\ now = 0
    /\ data = NoData
    /\ sensor_directives = <<>>
    /\ poll = IdlePoll
    /\ entry = NewEntry("basic")
    /\ wh = IdleWebhook
    /\ setup = NotLoaded
    /\ api = NothingSent
    /\ RestIdle

TasksNext ==
    \/ \E list \in ServerLists : TasksSetup(list)
    \/ \E id \in DirectiveIds : TaskPollStart(id)
    \/ \E id \in DirectiveIds, info \in StagePayloads : TaskStageResponse(id, info)
    \/ \E id \in DirectiveIds : TaskStageError(id)
    \/ \E id \in DirectiveIds, expired \in BOOLEAN : TaskSleepDone(id, expired)
    \/ \E id \in DirectiveIds : \E directive \in ServerDirective(id) :
          TaskDirectiveResponse(id, directive)
    \/ \E id \in DirectiveIds : TaskDirectiveError(id)
    \/ \E list \in ServerLists : TasksRefresh(list)
    \/ TaskStateChange
    \/ TaskStateChangeDone
    \/ TasksUnload

SpecTasks == TasksInit /\ [][TasksNext]_vars

\* every task that can take a step eventually does
FairSpecTasks == SpecTasks /\ WF_vars(TasksNext)

(***************************************************************************)
(* Properties of the side-by-side polls and of the sessions.               *)
(***************************************************************************)
\* the poll for id takes a step
TaskStep(id) == polls'[id].pc # polls[id].pc

\* what a poll merged or stored since the last refresh is no longer in the
\* collection
LostUpdate ==
    \E id \in DirectiveIds :
        /\ polls[id].wrote # Null
        /\ ~\E i \in 1..Len(data.directives) :
               /\ data.directives[i].id = id
               /\ data.directives[i].creation_stage = polls[id].wrote

C28_Original ==
    sess.unloads > 0 => sess.coordinator = "none" /\ sess.publisher = "none"

(***************************************************************************)
(* Further properties of the WebSocket commands and the API operations.    *)
(***************************************************************************)
\* the step in which an operation awaited by a command hands a poll to
\* hass.async_create_task
SpawnsPoll ==
    /\ op.pc = "in_flight"
    /\ op.caller = "ws"
    /\ \E t \in op'.tasks \ op.tasks : t.task = "poll"

\* a step of a poll task, or the step that starts it or clears it away
PollTaskStep == op.caller = "poll" \/ op'.caller = "poll"

\* C29: async_create_directive, async_download_directive and
\* async_send_conversation_message hand the poll to the event loop and return in
\* the same step, the poll not having started: the handler goes on at once, to
\* its result reply (create, send) or to its next request (download); and no
\* step of a poll, whether it returns, raises or times out, sends a reply or
\* changes the replies that were sent.
C29_PollIsDetached ==
    /\ [][SpawnsPoll =>
             /\ op.name \in {"create", "download", "conversation_post"}
             /\ op'.outcome = "returned" \/ op'.name = "list"
             /\ IF ws.type = "download_directive"
                THEN op'.pc = "in_flight" /\ op'.name = "list" /\ op'.caller = "ws"
                ELSE /\ ws'.pc = "done"
                     /\ Len(ws'.replies) >= 1
                     /\ ws'.replies[1] = [id |-> ws.id, kind |-> "result"]]_vars
    /\ [][PollTaskStep => ws'.replies = ws.replies /\ ws'.id = ws.id]_vars

\* C29 witness: the poll started by a command has raised, and the command's
\* reply is the result it was sent before the poll started
C29_Witness ==
    /\ op.caller = "poll"
    /\ op.pc = "done"
    /\ op.outcome = "raised"
    /\ ws.pc = "idle"
    /\ ws.replies = <<[id |-> 1, kind |-> "result"]>>

\* the step in which async_delete_directive is called and runs to its request
DeleteCalled == op.pc = "idle" /\ op'.pc = "in_flight" /\ op'.name = "delete"

\* a step of async_delete_directive on its response or on a network error
DeleteEnds == op.pc = "in_flight" /\ op.name = "delete"

\* C30: async_delete_directive, before its DELETE request, sets the status of
\* the entry with the id to "deleting" and changes nothing else of the
\* collection; it never takes an entry out itself: the collection changes on
\* the response only through the refresh after a 200, and after a DELETE that
\* failed the entry is still there with status "deleting".
C30_DeleteMarksAndKeeps ==
    /\ [][(DeleteCalled /\ Populated(data)) =>
             /\ Len(data'.directives) = Len(data.directives)
             /\ \A i \in 1..Len(data.directives) :
                   data'.directives[i] =
                      IF data.directives[i].id = op'.directive_id
                      THEN [data.directives[i] EXCEPT !.status = "deleting"]
                      ELSE data.directives[i]]_vars
    /\ [][(DeleteEnds /\ data' # data) =>
             /\ op'.status = 200
             /\ op'.outcome = "returned"
             /\ snap'.by = "refresh"]_vars
    /\ [][(DeleteEnds /\ op'.outcome = "raised") =>
             /\ data' = data
             /\ \A i \in 1..Len(data'.directives) :
                   data'.directives[i].id = op.directive_id =>
                      data'.directives[i].status = "deleting"]_vars

\* C30 witness: the DELETE was answered 500 and the entry is still in the
\* collection, with status "deleting"
C30_Witness ==
    /\ op.name = "delete"
    /\ op.pc = "done"
    /\ op.outcome = "raised"
    /\ op.status = 500
    /\ \E i \in 1..Len(data.directives) :
          /\ data.directives[i].id = op.directive_id
          /\ data.directives[i].status = "deleting"

(***************************************************************************)
(* Properties of the scenario deliveries.                                  *)
(***************************************************************************)
\* C31 as stated: a non-empty list of scenarios delivered on the MQTT topic is
\* dispatched: the dispatcher takes the list as its batch and goes through it,
\* as it does for a list that arrived in a publish response.
C31_Original ==
    (pub.kind = "mqtt" /\ pub.entered) =>
        /\ pub.ended # "raised"
        /\ pub.batch # <<>>

(***************************************************************************)
(* Properties of the sensor.                                                *)
(***************************************************************************)
\* C32: whatever commands, operations and poll steps have run, the sensor's
\* state is the count, as a string, of the entries of the collection published
\* last, or "unknown" while no collection is populated, and while one is
\* populated its directives attribute is that collection.
C32_SensorShowsPublishedCollection ==
    /\ SensorState(data) =
          IF Populated(snap.cur) THEN ToString(Len(snap.cur.directives)) ELSE "unknown"
    /\ Populated(snap.cur) =>
          SensorDirectives(data, sensor_directives) = snap.cur.directives

\* C32 witness: a fetched directive has been stored and published, and the
\* sensor counts the two entries of the published collection
C32_Witness ==
    /\ snap.by = "get"
    /\ op.pc = "done"
    /\ Populated(data)
    /\ Len(snap.cur.directives) = 2
    /\ SensorState(data) = "2"
    /\ SensorDirectives(data, sensor_directives) # sensor_directives

(***************************************************************************)
(* The service of an outcome and the outcomes before it.                   *)
(***************************************************************************)
\* a cover outcome with a state outside open, closed, stop and no position, or a
\* climate outcome with a state outside heat, cool, auto, off
ResolvesNoService(o) ==
    /\ o.kind = "dict"
    /\ o.entity_id \in {"cover.door", "climate.hall"}
    /\ o.state # Null
    /\ o.attributes.kind # "null"
    /\ IF o.entity_id = "cover.door"
       THEN /\ CoverServiceOf(o.state) = Null
            /\ "position" \notin DOMAIN o.attributes.map
       ELSE o.state \notin {"heat", "cool", "auto", "off"}

\* C33 as stated: the service called for an outcome is determined by the outcome
\* alone: for a cover or climate outcome whose state resolves no service, the
\* only call there can be is the climate branch's own set_temperature; no call
\* is made under a service name an earlier outcome of the batch resolved.
C33_Original ==
    \A q \in Positions :
        (Handled(q) /\ ResolvesNoService(OutcomeAt(q))) =>
            \A n \in 1..Len(CallsFor(q)) :
                /\ OutcomeAt(q).entity_id = "climate.hall"
                /\ CallsFor(q)[n].call.service = "set_temperature"

(***************************************************************************)
(* coordinator.py: the writes to the shared collection.  Every operation   *)
(* reads self.data and calls async_set_updated_data without an await in    *)
(* between, so however many operations are in flight, for whatever ids,    *)
(* the collection goes through a sequence of these writes, in any order.   *)
(***************************************************************************)
storeFrame == <<now, sensor_directives, poll, entry, wh, setup, api, restVars>>

\* a refresh delivers the server's list
StoreRefresh(list) ==
    /\ data' = Data(list)
    /\ data' # data
    /\ UNCHANGED storeFrame

\* some poll for id merges a non-terminal stage: lines 104-135
StoreMerge(id, info) ==
    /\ Populated(data)
    /\ ~IsTerminal(info.stage)
    /\ data' = MergeStage(data, id, info)
    /\ data' # data
    /\ UNCHANGED storeFrame

\* some async_get_directive(id) stores what it fetched: lines 181-196
StoreGet(id, directive) ==
    /\ Populated(data)
    /\ data' = StoreDirective(data, id,
                              SetKey(directive, "messages", CarriedMessages(data, id)))
    /\ data' # data
    /\ UNCHANGED storeFrame

\* some poll for id times out: lines 141-151
StoreTimeout(id) ==
    /\ data' = MarkTimedOut(data, id)
    /\ data' # data
    /\ UNCHANGED storeFrame

\* async_delete_directive(id) before its request: lines 278-291
StoreDeleting(id) ==
    /\ Populated(data)
    /\ data' = MarkDeleting(data, id)
    /\ data' # data
    /\ UNCHANGED storeFrame

\* async_download_directive(id) before its request: lines 321-335
StoreActivating(id) ==
    /\ Populated(data)
    /\ data' = MarkActivating(data, id)
    /\ data' # data
    /\ UNCHANGED storeFrame

\* async_get_conversation(id) on its response: lines 417-434
StoreConversation(id, messages) ==
    /\ Populated(data)
    /\ messages # <<>>
    /\ data' = StoreMessages(data, id, messages)
    /\ data' # data
    /\ UNCHANGED storeFrame

StoreInit ==
    /\ now = 0
    /\ data = NoData
    /\ sensor_directives = <<>>
    /\ poll = IdlePoll
    /\ entry = NewEntry("basic")
    /\ wh = IdleWebhook
    /\ setup = NotLoaded
    /\ api = NothingSent
    /\ RestIdle

StoreNext ==
    \/ \E list \in ServerLists : StoreRefresh(list)
    \/ \E id \in DirectiveIds, info \in StagePayloads : StoreMerge(id, info)
    \/ \E id \in DirectiveIds : \E directive \in ServerDirective(id) :
          StoreGet(id, directive)
    \/ \E id \in DirectiveIds : StoreTimeout(id)
    \/ \E id \in DirectiveIds : StoreDeleting(id)
    \/ \E id \in DirectiveIds : StoreActivating(id)
    \/ \E id \in DirectiveIds : StoreConversation(id, Messages)

SpecStore == StoreInit /\ [][StoreNext]_vars

\* no two entries of the collection have the same id
UniqueIds(d) ==
    \A i, j \in 1..Len(d.directives) :
        d.directives[i].id = d.directives[j].id => i = j

\* C34: the refreshes delivering collections with unique ids, the ids of the
\* collection stay unique through every sequence of poll merges, fetch stores,
\* timeout markings, delete and download markings and conversation stores, for
\* the same id or for different ones.
C34_IdsStayUnique == UniqueIds(data)

\* C34 witness: an entry added by a poll has since been fetched, given a
\* conversation and marked for deletion, next to another that a poll added and
\* a timeout marked
C34_Witness ==
    /\ Len(data.directives) = 2
    /\ \E i, j \in 1..2 :
          /\ data.directives[i].id = "d1"
          /\ data.directives[i].status = "deleting"
          /\ GetKey(data.directives[i], "messages", <<>>) = Messages
          /\ data.directives[j].id = "d2"
          /\ data.directives[j].creation_message = TimeoutMessage
          /\ ~data.directives[j].discovery

(***************************************************************************)
(* The effect of async_get_directive on the collection.                    *)
(***************************************************************************)
\* the step in which async_get_directive returns the directive it fetched, the
\* collection being populated
FetchStored ==
    /\ op.pc = "in_flight"
    /\ op.name = "get"
    /\ Populated(data)
    /\ op'.outcome = "returned"
    /\ op'.result.kind = "member"

\* the positions of the entries of id
EntriesOf(d, id) == {i \in 1..Len(d.directives) : d.directives[i].id = id}

\* the messages of the first entry of id, none if there is no entry or it has
\* no messages
MessagesBefore(d, id) ==
    IF EntriesOf(d, id) = {} THEN <<>>
    ELSE LET first == CHOOSE i \in EntriesOf(d, id) : \A j \in EntriesOf(d, id) : i <= j
         IN  IF "messages" \in DOMAIN d.directives[first]
             THEN d.directives[first]["messages"] ELSE <<>>

\* C35: after a successful async_get_directive(id) on a populated collection
\* the collection has exactly one entry for id; it is the fetched record with
\* its messages set to those of the entry it replaces, or to the empty list if
\* there was no entry; every other entry is what it was, in the same order.
C35_FetchReplacesOneEntry ==
    [][FetchStored =>
          LET id == op.directive_id
              fetched == op'.result.json["directive"]
          IN  /\ Cardinality(EntriesOf(data', id)) = 1
              /\ \A i \in EntriesOf(data', id) :
                    /\ data'.directives[i]["messages"] = MessagesBefore(data, id)
                    /\ \A k \in DOMAIN fetched \ {"messages"} :
                          data'.directives[i][k] = fetched[k]
                    /\ DOMAIN data'.directives[i] = DOMAIN fetched \cup {"messages"}
              /\ SelectOthers(data'.directives, id) = SelectOthers(data.directives, id)]_vars

\* C35 witness: the fetched directive has replaced an entry that had a
\* conversation, and carries it
C35_Witness ==
    /\ op.name = "get"
    /\ op.pc = "done"
    /\ op.result.kind = "member"
    /\ snap.by = "get"
    /\ Len(data.directives) = 2
    /\ \E i \in EntriesOf(data, op.directive_id) :
          /\ data.directives[i]["messages"] = Messages
          /\ data.directives[i].status = op.result.json["directive"].status

(***************************************************************************)
(* The "encrypted" marker of the /update-entity-state requests.            *)
(***************************************************************************)
\* C37 as stated: in every /update-entity-state request the publisher sends,
\* entities.encrypted is true exactly when entities.data is ciphertext made
\* by encrypt_data.  The single-entity request of _async_update_remote_state
\* carries ciphertext marked "encrypted": False.
C37_Original ==
    pub.sent.kind # "none" =>
        (pub.sent.encrypted <=> pub.sent.data.kind = "cipher")

(***************************************************************************)
(* config_flow.py: OptionsFlowHandler, with the setup path it reloads.     *)
(***************************************************************************)
\* the entities the options form offers (SUPPORTED_DOMAINS entities)
OfferedOrder == <<"light.kitchen", "cover.garage">>

OfferedEntities == {OfferedOrder[n] : n \in 1..Len(OfferedOrder)}

\* the selections submitted in the options form
Selections == {{"light.kitchen"}, OfferedEntities}

\* the statuses the options flow's POST is answered with
OptionsStatuses == {200, 500}

\* the lists GET /directive delivers while the options flow is followed
OptionsLists == {<<>>}

\* the offered entities hass.states knows
KnownEntities == {OfferedEntities, {"cover.garage"}}

\* Direktive.__init__: self.entity_ids = set(entity_ids) plus sun.sun
TrackedSet(s) == s.entity_ids \cup {"sun.sun"}

\* hass.data[DOMAIN][entry_id] exists: from line 61 of async_setup_entry until
\* async_unload_entry pops it
HasCoordinator(s) == s.pc \in {"registering", "bulk_posting", "loaded"}

\* the payload of the options flow: one row per selected entity, with state
\* "unknown" for those hass.states does not know (`known` are the others)
OptionsPayload(f, selection, known) ==
    LET chosen == SelectSeq(OfferedOrder, LAMBDA x : x \in selection)
        rows == [n \in 1..Len(chosen) |->
                    [entity_id |-> chosen[n],
                     state |-> IF chosen[n] \in known THEN "on" ELSE "unknown",
                     attributes |-> EmptyDict]]
    IN  [kind |-> "bulk",
         data |-> IF should_encrypt(f.subscription_type)
                  THEN encrypt_data(JsonList(rows), f.encryption_key)
                  ELSE [kind |-> "list", key |-> Null, plain |-> JsonList(rows)],
         encrypted |-> should_encrypt(f.subscription_type),
         bulk |-> TRUE, refresh |-> FALSE]

\* mutant: any answer counts as success
OptionsRejected_Never(status) == FALSE

\* if response.status != 200: errors["base"] = "api_error"
OptionsRejected(status) == status # 200

\* mutant: the new data is built from what the flow holds alone
OptionsNewData_FromFlow(e, f) ==
    [NewEntry(f.subscription_type) EXCEPT
        !.entities = f.new_entities,
        !.api_key = e.api_key,
        !.encryption_key = f.encryption_key,
        !.webhook_secret = f.webhook_secret]

\* lines 300-309: new_data = dict(self.config_entry.data) with the entities,
\* the subscription type and, when the flow holds them, the key and the secret
OptionsNewData(e, f) ==
    [e EXCEPT
        !.entities = f.new_entities,
        !.subscription_type = f.subscription_type,
        !.encryption_key = IF f.encryption_key # Null THEN f.encryption_key ELSE @,
        !.webhook_secret = IF f.webhook_secret # Null THEN f.webhook_secret ELSE @]

optionsFrame == <<now, sensor_directives, poll, wh, api, pub, ws, op, snap, polls, sess>>

\* the options flow is opened: OptionsFlowHandler.__init__ and the first form
OptionsOpen ==
    /\ flow.pc = "closed"
    /\ entry.exists
    /\ flow' = [NoFlow EXCEPT
                  !.pc = "form",
                  !.selected = entry.entities,
                  !.subscription_type = entry.subscription_type,
                  !.encryption_key = entry.encryption_key,
                  !.webhook_secret = entry.webhook_secret]
    /\ UNCHANGED <<data, entry, setup, optionsFrame>>

\* the form is submitted with `selection`: async_step_init up to the POST, or
\* to its return when the selection is the entry's
OptionsSubmit(selection, known) ==
    /\ flow.pc = "form"
    /\ flow' = IF entry.entities = selection
               THEN NoFlow
               ELSE IF should_encrypt(flow.subscription_type)
                       /\ ~CanEncrypt(flow.encryption_key)
               THEN [flow EXCEPT !.errors = "unknown", !.status = 0]
               ELSE [flow EXCEPT !.pc = "posting", !.new_entities = selection,
                                 !.sent = OptionsPayload(flow, selection, known),
                                 !.status = 0, !.errors = "none"]
    /\ UNCHANGED <<data, entry, setup, optionsFrame>>

\* the POST is answered: lines 280-296, up to the coordinator refresh.  The
\* lookup of hass.data[DOMAIN][entry_id] raises KeyError while the entry is not
\* set up, which the outer except turns into the error "unknown".
OptionsResponse(status) ==
    /\ flow.pc = "posting"
    /\ flow' = IF OptionsRejected(status)
               THEN [flow EXCEPT !.pc = "form", !.status = status,
                                 !.sent = NoPayload, !.errors = "api_error"]
               ELSE IF ~HasCoordinator(setup)
               THEN [flow EXCEPT !.pc = "form", !.status = status,
                                 !.sent = NoPayload, !.selected = flow.new_entities,
                                 !.errors = "unknown"]
               ELSE [flow EXCEPT !.pc = "refreshing", !.status = status,
                                 !.sent = NoPayload, !.selected = flow.new_entities]
    /\ UNCHANGED <<data, entry, setup, optionsFrame>>

\* the POST raises aiohttp.ClientError: lines 331-333
OptionsRaises ==
    /\ flow.pc = "posting"
    /\ flow' = [flow EXCEPT !.pc = "form", !.sent = NoPayload, !.errors = "api_error"]
    /\ UNCHANGED <<data, entry, setup, optionsFrame>>

\* async_request_refresh returns with `refreshed`: lines 298-328, the entry is
\* written and reloaded.  The host reloads an entry that is loaded or failed to
\* load (async_unload_entry, then async_setup_entry) and refuses with
\* OperationNotAllowed while its setup is in progress.
OptionsRefreshed(refreshed) ==
    /\ flow.pc = "refreshing"
    /\ setup.setups < MaxSetups
    /\ entry' = OptionsNewData(entry, flow)
    /\ IF setup.pc \in {"loaded", "not_loaded"}
       THEN /\ setup' = [pc |-> "first_refresh", setups |-> setup.setups + 1,
                         present |-> {}, entity_ids |-> entry'.entities]
            /\ data' = NoData
            /\ flow' = NoFlow
       ELSE /\ data' = refreshed
            /\ flow' = [flow EXCEPT !.pc = "form", !.errors = "unknown"]
            /\ UNCHANGED setup
    /\ UNCHANGED optionsFrame

OptionsInit ==
    /\ now = 0
    /\ data = NoData
    /\ sensor_directives = <<>>
    /\ poll = IdlePoll
    /\ entry = NewEntry("pro")
    /\ wh = IdleWebhook
    /\ setup = NotLoaded
    /\ api = NothingSent
    /\ RestIdle

OptionsNext ==
    \/ SetupStart
    \/ FirstRefreshFails
    \/ \E list \in OptionsLists, present \in SUBSET TrackedSet(setup) :
          FirstRefreshDone(list, present)
    \/ \E status \in RegisterStatuses, present \in SUBSET TrackedSet(setup) :
          RegisterResponse(status, present)
    \/ \E present \in SUBSET TrackedSet(setup) : RegisterRaises(present)
    \/ \E status \in BulkStatuses, parsed \in BOOLEAN,
          refreshed \in {data} \cup {Data(list) : list \in OptionsLists} :
          BulkResponse(status, parsed, refreshed)
    \/ BulkRaises
    \/ Unload
    \/ OptionsOpen
    \/ \E selection \in Selections, known \in KnownEntities :
          OptionsSubmit(selection, known)
    \/ \E status \in OptionsStatuses : OptionsResponse(status)
    \/ OptionsRaises
    \/ \E refreshed \in {data} \cup {Data(list) : list \in OptionsLists} :
          OptionsRefreshed(refreshed)

SpecOptions == OptionsInit /\ [][OptionsNext]_vars

(***************************************************************************)
(* Properties of the writes to the config entry.                           *)
(***************************************************************************)
\* C36: neither one-time flag goes from true to false, and every write to the
\* config entry is one of three: webhook_registered_to_api set,
\* initial_bulk_update_performed set, or the entity list replaced by the options
\* flow's selection; each leaves every other field (the other flag, the API
\* key, the encryption key, the webhook secret, the plan) as it was.
C36_FlagsRiseFieldsStay ==
    [][/\ entry.webhook_registered_to_api => entry'.webhook_registered_to_api
       /\ entry.initial_bulk_update_performed => entry'.initial_bulk_update_performed
       /\ entry' # entry =>
             \/ entry' = [entry EXCEPT !.webhook_registered_to_api = TRUE]
             \/ entry' = [entry EXCEPT !.initial_bulk_update_performed = TRUE]
             \/ entry' = [entry EXCEPT !.entities = flow.new_entities]]_vars

\* C36 witness: the options flow has saved a new entity list into an entry
\* whose two flags were set, and the reload it started finds them set
C36_Witness ==
    /\ entry.entities = OfferedEntities
    /\ entry.webhook_registered_to_api
    /\ entry.initial_bulk_update_performed
    /\ setup.pc = "first_refresh"
    /\ setup.entity_ids = OfferedEntities
    /\ flow = NoFlow

\* C38: the options flow writes the entity list, and reloads the entry, only
\* in a step taken after its POST was answered 200, and what it writes is the
\* submitted selection; the step in which the POST fails or is answered with
\* another status changes neither the config entry nor the tracked entities.
C38_SavedOnlyAfter200 ==
    /\ [][entry'.entities # entry.entities
            => flow.status = 200 /\ entry'.entities = flow.new_entities]_vars
    /\ [][(flow' # flow /\ setup' # setup) => flow.status = 200]_vars
    /\ [][(flow.pc = "posting" /\ flow' # flow /\ flow'.status # 200)
            => /\ entry' = entry
               /\ setup' = setup
               /\ flow'.errors = "api_error"]_vars

\* C38 witness: after a selection was saved on a 200, the next one was
\* answered 500 and the entry still holds the saved one
C38_Witness ==
    /\ entry.entities = OfferedEntities
    /\ flow.pc = "form"
    /\ flow.status = 500
    /\ flow.new_entities = {"light.kitchen"}
    /\ TrackedSet(setup) = OfferedEntities \cup {"sun.sun"}

====
